---------------------------- MODULE Spec2Model ----------------------------
(***************************************************************************)
(* Model of the cost-allocation and cash-reinvestment engine of the        *)
(* inventory application: the cash ledger (RevenueService), the purchase,  *)
(* sale and transaction save flows and the recalculation sweep.            *)
(*                                                                         *)
(* Numbers.  Amounts the user enters (unit costs, footer totals, sale and  *)
(* transaction amounts, cash to use) are integers counting cents.  Values  *)
(* the code derives with a division (per-unit allocations, landed cost,    *)
(* price band) are exact rationals <<n, d>> in cents, d > 0; <<0, 0>> is   *)
(* NaN and <<1, 0>>, <<-1, 0>> are +Infinity and -Infinity.                *)
(* Quantities are counts: whole numbers, 0 when the field was cleared.     *)
(* Identifiers made by uid() are modelled by the least unused integer.     *)
(***************************************************************************)
EXTENDS Integers, Sequences, FiniteSets, TLC

VARIABLES
    db,     \* the persisted DB document: items, purchases, sales, transactions, cashWithdrawals
    last    \* the handler or function that ran last, its inputs and its outcome

vars == <<db, last>>

-----------------------------------------------------------------------------
(* Bounds of the model *)

MaxPurchases == 1
MaxSales == 1
MaxTransactions == 1
MaxIncomes == 1
MaxWithdrawals == 2
MaxQty == 2
MaxCost == 3
MaxStock == 4

-----------------------------------------------------------------------------
(* Arithmetic helpers *)

Min(a, b) == IF a <= b THEN a ELSE b
Max(a, b) == IF a >= b THEN a ELSE b
Abs(a) == IF a < 0 THEN -a ELSE a

RECURSIVE GCD(_, _)
GCD(a, b) == IF b = 0 THEN a ELSE GCD(b, a % b)

\* a JS number n/d, in lowest terms; a zero denominator gives NaN or an infinity
Norm(n, d) ==
    IF d = 0 THEN <<(IF n > 0 THEN 1 ELSE IF n < 0 THEN -1 ELSE 0), 0>>
    ELSE LET g == GCD(Abs(n), Abs(d))
             s == IF d < 0 THEN -1 ELSE 1
         IN <<(s * n) \div g, (s * d) \div g>>

FromInt(i) == <<i, 1>>
NaN == <<0, 0>>
IsFinite(a) == a[2] # 0

RAdd(a, b) ==
    IF a[2] = 0 /\ b[2] = 0 THEN (IF a = b THEN a ELSE NaN)
    ELSE Norm(a[1] * b[2] + b[1] * a[2], a[2] * b[2])
RSub(a, b) == RAdd(a, <<-b[1], b[2]>>)
RMul(a, b) == Norm(a[1] * b[1], a[2] * b[2])
RDiv(a, b) == IF b[1] < 0 THEN Norm(-(a[1] * b[2]), -(a[2] * b[1]))
              ELSE Norm(a[1] * b[2], a[2] * b[1])
RLe(a, b) == a[2] # 0 /\ b[2] # 0 /\ a[1] * b[2] <= b[1] * a[2]

\* Math.ceil of a value in whole units
RCeil(a) ==
    IF a[2] = 0 THEN a
    ELSE LET q == a[1] \div a[2] IN FromInt(IF q * a[2] = a[1] THEN q ELSE q + 1)

\* Math.ceil of an amount of cents taken in dollars, given back in cents
MathCeil(a) == RMul(FromInt(100), RCeil(RDiv(a, FromInt(100))))

\* Math.round(x * 100) / 100 of an amount in cents: the nearest cent, halves up
RoundCents(a) ==
    LET q == (2 * a[1] + a[2]) \div (2 * a[2]) IN q

RECURSIVE SumSeq(_)
SumSeq(s) == IF s = <<>> THEN 0 ELSE Head(s) + SumSeq(Tail(s))

\* the index of the first element of s with the given id, 0 when there is none (Array.find)
FindIdx(s, id) ==
    IF \E i \in 1..Len(s) : s[i].id = id
    THEN CHOOSE i \in 1..Len(s) : s[i].id = id /\ \A j \in 1..(i - 1) : s[j].id # id
    ELSE 0

\* uid(): an identifier no stored record uses
FreshId(used) == CHOOSE i \in 1..(Cardinality(used) + 1) : i \notin used

-----------------------------------------------------------------------------
(* Settings *)

DEFAULT_SETTINGS == [weightCostPerLb |-> 700, taxRatePercent |-> <<8775, 1000>>]

-----------------------------------------------------------------------------
(* RevenueService: the cash ledger *)

calculateTotalRevenue(d) ==
    SumSeq([i \in 1..Len(d.sales) |-> d.sales[i].totalAmount])

calculateTotalWithdrawn(d) ==
    SumSeq([i \in 1..Len(d.cashWithdrawals) |-> d.cashWithdrawals[i].amount])

calculateTotalIncome(d) ==
    SumSeq([i \in 1..Len(d.transactions) |->
              IF d.transactions[i].type = "income" THEN d.transactions[i].amount ELSE 0])

calculateAvailableCash_unclamped(d) ==
    calculateTotalRevenue(d) + calculateTotalIncome(d) - calculateTotalWithdrawn(d)

calculateAvailableCash(d) ==
    LET totalRevenue == calculateTotalRevenue(d)
        totalIncome == calculateTotalIncome(d)
        totalWithdrawn == calculateTotalWithdrawn(d)
    IN Max(0, totalRevenue + totalIncome - totalWithdrawn)

canWithdrawCash_noLimit(d, amount) == amount > 0

canWithdrawCash_ignoresWithdrawn(d, amount) ==
    IF amount <= 0 THEN FALSE
    ELSE amount <= calculateTotalRevenue(d) + calculateTotalIncome(d)

canWithdrawCash(d, amount) ==
    IF amount <= 0 THEN FALSE
    ELSE LET available == calculateAvailableCash(d) IN amount <= available

\* id, withdrawnAt and notes are not read by the ledger and are left out;
\* linkedPurchaseId 0 stands for undefined
createCashWithdrawal(amount, reason, linkedPurchaseId) ==
    [amount |-> amount, reason |-> reason, linkedPurchaseId |-> linkedPurchaseId]

calculatePaymentBreakdown_noClamp(totalCost, cashToUse) ==
    LET clampedCashUsed == Max(0, cashToUse)
        externalPayment == totalCost - clampedCashUsed
    IN [cashUsed |-> clampedCashUsed,
        externalPayment |-> externalPayment,
        paymentSource |-> IF clampedCashUsed = 0 THEN "external"
                          ELSE IF externalPayment = 0 THEN "revenue"
                          ELSE "mixed"]

calculatePaymentBreakdown(totalCost, cashToUse) ==
    LET clampedCashUsed == Max(0, Min(cashToUse, totalCost))
        externalPayment == totalCost - clampedCashUsed
    IN [cashUsed |-> clampedCashUsed,
        externalPayment |-> externalPayment,
        paymentSource |-> IF clampedCashUsed = 0 THEN "external"
                          ELSE IF externalPayment = 0 THEN "revenue"
                          ELSE "mixed"]

processPurchaseWithCash_zeroWithdrawal(d, purchase, cashToUse, withdrawalReason) ==
    IF ~canWithdrawCash(d, cashToUse) THEN [threw |-> TRUE]
    ELSE
    LET paymentBreakdown == calculatePaymentBreakdown(purchase.totalCost, cashToUse)
        withdrawal == createCashWithdrawal(paymentBreakdown.cashUsed, withdrawalReason, purchase.id)
        updatedPurchase == [purchase EXCEPT !.cashUsed = paymentBreakdown.cashUsed,
                                            !.paymentSource = paymentBreakdown.paymentSource]
    IN [threw |-> FALSE,
        updatedDb |-> [d EXCEPT
            !.purchases = [i \in 1..Len(d.purchases) |->
                             IF d.purchases[i].id = purchase.id THEN updatedPurchase
                             ELSE d.purchases[i]],
            !.cashWithdrawals = Append(d.cashWithdrawals, withdrawal)],
        withdrawal |-> <<withdrawal>>,
        paymentBreakdown |-> paymentBreakdown]

processPurchaseWithCash_requestedAmount(d, purchase, cashToUse, withdrawalReason) ==
    IF ~canWithdrawCash(d, cashToUse) THEN [threw |-> TRUE]
    ELSE
    LET paymentBreakdown == calculatePaymentBreakdown(purchase.totalCost, cashToUse)
        withdrawal == createCashWithdrawal(cashToUse, withdrawalReason, purchase.id)
        updatedPurchase == [purchase EXCEPT !.cashUsed = paymentBreakdown.cashUsed,
                                            !.paymentSource = paymentBreakdown.paymentSource]
    IN [threw |-> FALSE,
        updatedDb |-> [d EXCEPT
            !.purchases = [i \in 1..Len(d.purchases) |->
                             IF d.purchases[i].id = purchase.id THEN updatedPurchase
                             ELSE d.purchases[i]],
            !.cashWithdrawals = IF paymentBreakdown.cashUsed > 0
                                THEN Append(d.cashWithdrawals, withdrawal)
                                ELSE d.cashWithdrawals],
        withdrawal |-> IF paymentBreakdown.cashUsed > 0 THEN <<withdrawal>> ELSE <<>>,
        paymentBreakdown |-> paymentBreakdown]

\* the function writing the payment fields on every purchase of the document
processPurchaseWithCash_marksAll(d, purchase, cashToUse, withdrawalReason) ==
    IF ~canWithdrawCash(d, cashToUse) THEN [threw |-> TRUE]
    ELSE
    LET paymentBreakdown == calculatePaymentBreakdown(purchase.totalCost, cashToUse)
        withdrawal == createCashWithdrawal(paymentBreakdown.cashUsed, withdrawalReason, purchase.id)
    IN [threw |-> FALSE,
        updatedDb |-> [d EXCEPT
            !.purchases = [i \in 1..Len(d.purchases) |->
                             [d.purchases[i] EXCEPT
                                 !.cashUsed = paymentBreakdown.cashUsed,
                                 !.paymentSource = paymentBreakdown.paymentSource]],
            !.cashWithdrawals = IF paymentBreakdown.cashUsed > 0
                                THEN Append(d.cashWithdrawals, withdrawal)
                                ELSE d.cashWithdrawals],
        withdrawal |-> IF paymentBreakdown.cashUsed > 0 THEN <<withdrawal>> ELSE <<>>,
        paymentBreakdown |-> paymentBreakdown]

\* threw: Error('Insufficient cash available for withdrawal'); withdrawal is <<>> for null
processPurchaseWithCash(d, purchase, cashToUse, withdrawalReason) ==
    IF ~canWithdrawCash(d, cashToUse) THEN [threw |-> TRUE]
    ELSE
    LET paymentBreakdown == calculatePaymentBreakdown(purchase.totalCost, cashToUse)
        withdrawal == createCashWithdrawal(paymentBreakdown.cashUsed, withdrawalReason, purchase.id)
        updatedWithdrawals == IF paymentBreakdown.cashUsed > 0
                              THEN Append(d.cashWithdrawals, withdrawal)
                              ELSE d.cashWithdrawals
        updatedPurchase == [purchase EXCEPT !.cashUsed = paymentBreakdown.cashUsed,
                                            !.paymentSource = paymentBreakdown.paymentSource]
        updatedPurchases == [i \in 1..Len(d.purchases) |->
                               IF d.purchases[i].id = purchase.id THEN updatedPurchase
                               ELSE d.purchases[i]]
    IN [threw |-> FALSE,
        updatedDb |-> [d EXCEPT !.purchases = updatedPurchases,
                                !.cashWithdrawals = updatedWithdrawals],
        withdrawal |-> IF paymentBreakdown.cashUsed > 0 THEN <<withdrawal>> ELSE <<>>,
        paymentBreakdown |-> paymentBreakdown]

\* `Transaction: ${transaction.description}`
TransactionReason(description) == [prefix |-> "Transaction: ", text |-> description]

cashToWithdrawOf_mixedFull(transaction) ==
    IF transaction.paymentSource \in {"revenue", "mixed"} THEN transaction.amount ELSE 0

\* the cash an expense or fee takes from the business cash; a cashAmount of 0 also
\* stands for a missing or NaN cashAmount, all three being falsy
cashToWithdrawOf(transaction) ==
    IF transaction.paymentSource = "revenue" THEN transaction.amount
    ELSE IF transaction.paymentSource = "mixed" /\ transaction.cashAmount # 0
         THEN transaction.cashAmount
    ELSE 0

processTransactionWithCash_clampOnShortage(d, transaction) ==
    IF transaction.type \in {"income", "discount"}
    THEN [updatedDb |-> d, withdrawals |-> <<>>, error |-> ""]
    ELSE LET cashToWithdraw == cashToWithdrawOf(transaction)
             withdrawal == createCashWithdrawal(Min(cashToWithdraw, calculateAvailableCash(d)),
                               TransactionReason(transaction.description), 0)
         IN IF cashToWithdraw > 0
            THEN [updatedDb |-> [d EXCEPT !.cashWithdrawals = Append(@, withdrawal)],
                  withdrawals |-> <<withdrawal>>, error |-> ""]
            ELSE [updatedDb |-> d, withdrawals |-> <<>>, error |-> ""]

\* error "" stands for no error
processTransactionWithCash(d, transaction) ==
    IF transaction.type \in {"income", "discount"}
    THEN [updatedDb |-> d, withdrawals |-> <<>>, error |-> ""]
    ELSE LET cashToWithdraw == cashToWithdrawOf(transaction)
             withdrawal == createCashWithdrawal(cashToWithdraw,
                               TransactionReason(transaction.description), 0)
         IN IF cashToWithdraw > 0 /\ ~canWithdrawCash(d, cashToWithdraw)
            THEN [updatedDb |-> d, withdrawals |-> <<>>,
                  error |-> "Insufficient cash available"]
            ELSE IF cashToWithdraw > 0
            THEN [updatedDb |-> [d EXCEPT !.cashWithdrawals = Append(@, withdrawal)],
                  withdrawals |-> <<withdrawal>>, error |-> ""]
            ELSE [updatedDb |-> d, withdrawals |-> <<>>, error |-> ""]

\* RevenueService.calculateTotalTransactionWithdrawals: the withdrawals whose reason
\* starts with 'Transaction:'
calculateTotalTransactionWithdrawals(d) ==
    SumSeq([i \in 1..Len(d.cashWithdrawals) |->
              IF d.cashWithdrawals[i].reason.prefix = "Transaction: "
              THEN d.cashWithdrawals[i].amount ELSE 0])

-----------------------------------------------------------------------------
(* Transactions: TransactionForm and TransactionsPage *)

isNonFinancial(type) == type \in {"income", "discount"}

\* The form's fields as numbers: an empty amount, cashAmount or externalAmount is 0
\* (parseFloat(...) || 0).  The set of the fields in error; empty when the form is valid.
validateForm_noAvailabilityCheck(d, formData) ==
    LET availableCash == calculateAvailableCash(d)
        isMixed == formData.paymentSource = "mixed"
    IN  (IF formData.description = "" THEN {"description"} ELSE {})
        \cup (IF formData.amount <= 0 THEN {"amount"} ELSE {})
        \cup (IF formData.category = "" THEN {"category"} ELSE {})
        \cup (IF ~isNonFinancial(formData.type) /\ isMixed
                 /\ (\/ (formData.cashAmount <= 0 /\ formData.externalAmount <= 0)
                     \/ Abs(formData.cashAmount + formData.externalAmount - formData.amount) > 1)
              THEN {"mixedAmounts"} ELSE {})

validateForm(d, formData) ==
    LET availableCash == calculateAvailableCash(d)
        isMixed == formData.paymentSource = "mixed"
    IN  (IF formData.description = "" THEN {"description"} ELSE {})
        \cup (IF formData.amount <= 0 THEN {"amount"} ELSE {})
        \cup (IF formData.category = "" THEN {"category"} ELSE {})
        \cup (IF ~isNonFinancial(formData.type) /\ formData.paymentSource = "revenue"
                 /\ formData.amount > availableCash
              THEN {"amount"} ELSE {})
        \cup (IF ~isNonFinancial(formData.type) /\ isMixed
                 /\ (\/ (formData.cashAmount <= 0 /\ formData.externalAmount <= 0)
                     \/ Abs(formData.cashAmount + formData.externalAmount - formData.amount) > 1
                     \/ formData.cashAmount > availableCash)
              THEN {"mixedAmounts"} ELSE {})

\* the Transaction that handleSubmit builds; paymentSource "none" and amounts 0 stand
\* for the fields an income, a discount or a non-mixed transaction does not carry
TransactionOf(id, formData) ==
    [id |-> id,
     type |-> formData.type,
     amount |-> formData.amount,
     description |-> formData.description,
     category |-> formData.category,
     paymentSource |-> IF isNonFinancial(formData.type) THEN "none" ELSE formData.paymentSource,
     cashAmount |-> IF ~isNonFinancial(formData.type) /\ formData.paymentSource = "mixed"
                    THEN formData.cashAmount ELSE 0,
     externalAmount |-> IF ~isNonFinancial(formData.type) /\ formData.paymentSource = "mixed"
                        THEN formData.externalAmount ELSE 0]

TransactionIds(d) == {d.transactions[i].id : i \in 1..Len(d.transactions)}

\* TransactionsPage.handleSave: the DB it persists, or the error it alerts
TransactionsPage_handleSave_result(d, transaction) ==
    LET exists == FindIdx(d.transactions, transaction.id) # 0
        usesCash == /\ transaction.type # "income"
                    /\ transaction.type # "discount"
                    /\ transaction.paymentSource \in {"revenue", "mixed"}
        processed == processTransactionWithCash(d, transaction)
        updatedDb == IF usesCash THEN processed.updatedDb ELSE d
        nextTransactions ==
            IF exists
            THEN [i \in 1..Len(updatedDb.transactions) |->
                    IF updatedDb.transactions[i].id = transaction.id THEN transaction
                    ELSE updatedDb.transactions[i]]
            ELSE Append(updatedDb.transactions, transaction)
    IN IF usesCash /\ processed.error # ""
       THEN [db |-> d, error |-> processed.error]
       ELSE [db |-> [updatedDb EXCEPT !.transactions = nextTransactions], error |-> ""]

TransactionsPage_handleSave(transaction) ==
    LET r == TransactionsPage_handleSave_result(db, transaction)
    IN /\ db' = r.db
       /\ last' = [op |-> "TransactionsPage.handleSave", arg |-> transaction, error |-> r.error]

\* TransactionForm.handleSubmit: initial is the index of the edited transaction, 0 for a new one
TransactionForm_handleSubmit(initial, formData) ==
    LET id == IF initial = 0 THEN FreshId(TransactionIds(db)) ELSE db.transactions[initial].id
        transaction == TransactionOf(id, formData)
        r == TransactionsPage_handleSave_result(db, transaction)
    IN IF validateForm(db, formData) # {}
       THEN /\ db' = db
            /\ last' = [op |-> "TransactionForm.handleSubmit", arg |-> transaction,
                        error |-> "validation"]
       ELSE /\ db' = r.db
            /\ last' = [op |-> "TransactionForm.handleSubmit", arg |-> transaction,
                        error |-> r.error]

TransactionsPage_onDelete(id) ==
    /\ db' = [db EXCEPT !.transactions = SelectSeq(@, LAMBDA x : x.id # id)]
    /\ last' = [op |-> "TransactionsPage.onDelete", arg |-> id, error |-> ""]

-----------------------------------------------------------------------------
(* Sales: SaleForm and SalesPage.  Every item is in the main inventory and    *)
(* no sale names a branch; the sale date is within the allowed week.          *)

SaleIds(d) == {d.sales[i].id : i \in 1..Len(d.sales)}

RECURSIVE SaleTotal(_)
SaleTotal(lines) ==
    IF lines = <<>> THEN 0
    ELSE Head(lines).quantity * Head(lines).unitPrice + SaleTotal(Tail(lines))

\* SaleForm.save, lines 208-222: each line takes its quantity out of the stock
RECURSIVE TakeFromStock(_, _)
TakeFromStock(its, lines) ==
    IF lines = <<>> THEN its
    ELSE TakeFromStock(
            [i \in 1..Len(its) |->
               IF its[i].id = Head(lines).itemId
               THEN [its[i] EXCEPT !.stock = Max(0, @ - Head(lines).quantity)]
               ELSE its[i]],
            Tail(lines))

\* SalesPage.handleSave and onDelete: each line of the old sale goes back to the stock
RECURSIVE RestoreToStock(_, _)
RestoreToStock(its, lines) ==
    IF lines = <<>> THEN its
    ELSE RestoreToStock(
            [i \in 1..Len(its) |->
               IF its[i].id = Head(lines).itemId
               THEN [its[i] EXCEPT !.stock = @ + Head(lines).quantity]
               ELSE its[i]],
            Tail(lines))

\* updatedItems.forEach(ui => itemsWorking.map(it => (it.id === ui.id ? ui : it)))
ReplaceById(itemsWorking, updatedItems) ==
    [i \in 1..Len(itemsWorking) |->
       LET hits == {j \in 1..Len(updatedItems) : updatedItems[j].id = itemsWorking[i].id}
       IN IF hits = {} THEN itemsWorking[i]
          ELSE updatedItems[CHOOSE j \in hits : \A k \in hits : k <= j]]

SalesPage_handleSave_result(d, sale, updatedItems) ==
    LET existsIdx == FindIdx(d.sales, sale.id)
        restored == IF existsIdx # 0 THEN RestoreToStock(d.items, d.sales[existsIdx].lines)
                    ELSE d.items
        itemsWorking == ReplaceById(restored, updatedItems)
        nextSales == IF existsIdx # 0
                     THEN [i \in 1..Len(d.sales) |->
                             IF d.sales[i].id = sale.id THEN sale ELSE d.sales[i]]
                     ELSE Append(d.sales, sale)
    IN [d EXCEPT !.items = itemsWorking, !.sales = nextSales]

\* SaleForm.save: initial is the index of the edited sale, 0 for a new one
SaleForm_save(initial, lines) ==
    LET s == [id |-> IF initial = 0 THEN FreshId(SaleIds(db)) ELSE db.sales[initial].id,
              lines |-> lines,
              totalAmount |-> SaleTotal(lines)]
        itemsUpdated == TakeFromStock(db.items, lines)
    IN IF lines = <<>> \/ \E i \in 1..Len(lines) : lines[i].itemId = ""
       THEN /\ db' = db
            /\ last' = [op |-> "SaleForm.save", arg |-> initial, error |-> "validation"]
       ELSE /\ db' = SalesPage_handleSave_result(db, s, itemsUpdated)
            /\ last' = [op |-> "SaleForm.save", arg |-> initial, error |-> ""]

SalesPage_onDelete(id) ==
    LET idx == FindIdx(db.sales, id)
        itemsWorking == IF idx # 0 THEN RestoreToStock(db.items, db.sales[idx].lines)
                        ELSE db.items
    IN /\ db' = [db EXCEPT !.items = itemsWorking,
                           !.sales = SelectSeq(@, LAMBDA x : x.id # id)]
       /\ last' = [op |-> "SalesPage.onDelete", arg |-> id, error |-> ""]

-----------------------------------------------------------------------------
(* Purchases: the allocation and the stock and cost updates of PurchaseForm   *)

\* lineUnits taken as quantity * subItemsQty for a line with sub-items
lineUnits_product(l) == IF l.hasSubItems THEN l.quantity * l.subItemsQty ELSE l.quantity

\* billable units of a line: l.quantity + (l.hasSubItems ? (l.subItemsQty ?? 0) : 0)
lineUnits(l) == l.quantity + (IF l.hasSubItems THEN l.subItemsQty ELSE 0)

hasQuantityChanges(oldLines, newLines) ==
    IF Len(oldLines) # Len(newLines) THEN TRUE
    ELSE \E i \in 1..Len(oldLines) :
            LET oldLine == oldLines[i]
                hits == {j \in 1..Len(newLines) : newLines[j].itemId = oldLine.itemId}
            IN \/ hits = {}
               \/ LET newLine == newLines[CHOOSE j \in hits : \A k \in hits : j <= k]
                  IN lineUnits(oldLine) # lineUnits(newLine)

RECURSIVE calcSubtotal(_)
calcSubtotal(ls) ==
    IF ls = <<>> THEN 0
    ELSE Head(ls).quantity * Head(ls).unitCost + calcSubtotal(Tail(ls))

totalUnits(ls) == SumSeq([i \in 1..Len(ls) |-> lineUnits(ls[i])])

\* item?.weightLbs ?? 0 ; a weight of 0 also stands for a missing weight
itemWeightOf(its, itemId) ==
    LET hits == {i \in 1..Len(its) : its[i].id = itemId}
    IN IF hits = {} THEN 0 ELSE its[CHOOSE i \in hits : \A k \in hits : i <= k].weightLbs

totalWeightOf(its, ls) ==
    SumSeq([i \in 1..Len(ls) |-> itemWeightOf(its, ls[i].itemId) * lineUnits(ls[i])])

\* Math.round(subtotal * (taxRate / 100) * 100) / 100
autoTaxOf(subtotal, taxRate) ==
    RoundCents(RMul(FromInt(subtotal), RDiv(taxRate, FromInt(100))))

\* the allocation taking the tax rate for a fraction instead of a percentage
enrichLine_taxRateAsFraction(its, l, units, totalWeight, taxRate, shipUS, shipIntl) ==
    LET itemWeight == itemWeightOf(its, l.itemId)
        lUnits == lineUnits(l)
        lineWeight == itemWeight * lUnits
        weightRatio == IF totalWeight > 0 THEN RDiv(FromInt(lineWeight), FromInt(totalWeight))
                       ELSE FromInt(0)
        perUnitTax == RMul(FromInt(l.unitCost), taxRate)
        perUnitShippingUS == IF shipUS > 0 /\ units # 0 THEN RDiv(FromInt(shipUS), FromInt(units))
                             ELSE FromInt(0)
        perUnitShippingIntl == IF lUnits > 0
                               THEN RDiv(RMul(FromInt(shipIntl), weightRatio), FromInt(lUnits))
                               ELSE FromInt(0)
    IN [itemId |-> l.itemId, quantity |-> l.quantity, unitCost |-> l.unitCost,
        hasSubItems |-> l.hasSubItems, subItemsQty |-> l.subItemsQty,
        perUnitTax |-> perUnitTax,
        perUnitShippingUS |-> perUnitShippingUS,
        perUnitShippingIntl |-> perUnitShippingIntl,
        unitCostPostShipping |->
            RAdd(RAdd(RAdd(FromInt(l.unitCost), perUnitTax), perUnitShippingUS),
                 perUnitShippingIntl)]

\* the allocation giving every unit of a line the line's whole share of the international shipping
enrichLine_intlPerLine(its, l, units, totalWeight, taxRate, shipUS, shipIntl) ==
    LET itemWeight == itemWeightOf(its, l.itemId)
        lUnits == lineUnits(l)
        lineWeight == itemWeight * lUnits
        weightRatio == IF totalWeight > 0 THEN RDiv(FromInt(lineWeight), FromInt(totalWeight))
                       ELSE FromInt(0)
        perUnitTax == RMul(FromInt(l.unitCost), RDiv(taxRate, FromInt(100)))
        perUnitShippingUS == IF shipUS > 0 /\ units # 0 THEN RDiv(FromInt(shipUS), FromInt(units))
                             ELSE FromInt(0)
        perUnitShippingIntl == IF lUnits > 0 THEN RMul(FromInt(shipIntl), weightRatio)
                               ELSE FromInt(0)
    IN [itemId |-> l.itemId, quantity |-> l.quantity, unitCost |-> l.unitCost,
        hasSubItems |-> l.hasSubItems, subItemsQty |-> l.subItemsQty,
        perUnitTax |-> perUnitTax,
        perUnitShippingUS |-> perUnitShippingUS,
        perUnitShippingIntl |-> perUnitShippingIntl,
        unitCostPostShipping |->
            RAdd(RAdd(RAdd(FromInt(l.unitCost), perUnitTax), perUnitShippingUS),
                 perUnitShippingIntl)]

\* the allocation splitting the US shipping by weight, as the international one
enrichLine_usByWeight(its, l, units, totalWeight, taxRate, shipUS, shipIntl) ==
    LET itemWeight == itemWeightOf(its, l.itemId)
        lUnits == lineUnits(l)
        lineWeight == itemWeight * lUnits
        weightRatio == IF totalWeight > 0 THEN RDiv(FromInt(lineWeight), FromInt(totalWeight))
                       ELSE FromInt(0)
        perUnitTax == RMul(FromInt(l.unitCost), RDiv(taxRate, FromInt(100)))
        perUnitShippingUS == IF shipUS > 0 /\ lUnits > 0
                             THEN RDiv(RMul(FromInt(shipUS), weightRatio), FromInt(lUnits))
                             ELSE FromInt(0)
        perUnitShippingIntl == IF lUnits > 0
                               THEN RDiv(RMul(FromInt(shipIntl), weightRatio), FromInt(lUnits))
                               ELSE FromInt(0)
    IN [itemId |-> l.itemId, quantity |-> l.quantity, unitCost |-> l.unitCost,
        hasSubItems |-> l.hasSubItems, subItemsQty |-> l.subItemsQty,
        perUnitTax |-> perUnitTax,
        perUnitShippingUS |-> perUnitShippingUS,
        perUnitShippingIntl |-> perUnitShippingIntl,
        unitCostPostShipping |->
            RAdd(RAdd(RAdd(FromInt(l.unitCost), perUnitTax), perUnitShippingUS),
                 perUnitShippingIntl)]

\* the allocation splitting the international shipping by units, as the US one
enrichLine_intlByUnits(its, l, units, totalWeight, taxRate, shipUS, shipIntl) ==
    LET lUnits == lineUnits(l)
        perUnitTax == RMul(FromInt(l.unitCost), RDiv(taxRate, FromInt(100)))
        perUnitShippingUS == IF shipUS > 0 /\ units # 0 THEN RDiv(FromInt(shipUS), FromInt(units))
                             ELSE FromInt(0)
        perUnitShippingIntl == IF lUnits > 0 /\ units # 0
                               THEN RDiv(FromInt(shipIntl), FromInt(units))
                               ELSE FromInt(0)
    IN [itemId |-> l.itemId, quantity |-> l.quantity, unitCost |-> l.unitCost,
        hasSubItems |-> l.hasSubItems, subItemsQty |-> l.subItemsQty,
        perUnitTax |-> perUnitTax,
        perUnitShippingUS |-> perUnitShippingUS,
        perUnitShippingIntl |-> perUnitShippingIntl,
        unitCostPostShipping |->
            RAdd(RAdd(RAdd(FromInt(l.unitCost), perUnitTax), perUnitShippingUS),
                 perUnitShippingIntl)]

\* PurchaseForm.save, lines 867-891: one line with its allocations
enrichLine(its, l, units, totalWeight, taxRate, shipUS, shipIntl) ==
    LET itemWeight == itemWeightOf(its, l.itemId)
        lUnits == lineUnits(l)
        lineWeight == itemWeight * lUnits
        perUnitTax == RMul(FromInt(l.unitCost), RDiv(taxRate, FromInt(100)))
        perUnitShippingUS == IF shipUS > 0 /\ units # 0 THEN RDiv(FromInt(shipUS), FromInt(units))
                             ELSE FromInt(0)
        weightRatio == IF totalWeight > 0 THEN RDiv(FromInt(lineWeight), FromInt(totalWeight))
                       ELSE FromInt(0)
        perUnitShippingIntl == IF lUnits > 0
                               THEN RDiv(RMul(FromInt(shipIntl), weightRatio), FromInt(lUnits))
                               ELSE FromInt(0)
    IN [itemId |-> l.itemId, quantity |-> l.quantity, unitCost |-> l.unitCost,
        hasSubItems |-> l.hasSubItems, subItemsQty |-> l.subItemsQty,
        perUnitTax |-> perUnitTax,
        perUnitShippingUS |-> perUnitShippingUS,
        perUnitShippingIntl |-> perUnitShippingIntl,
        unitCostPostShipping |->
            RAdd(RAdd(RAdd(FromInt(l.unitCost), perUnitTax), perUnitShippingUS),
                 perUnitShippingIntl)]

\* the price band rounded to the nearest cent instead of up to the whole unit
withCostsOf_roundedToCent(it, l) ==
    LET costPost == l.unitCostPostShipping
        autoMin == IF IsFinite(costPost) THEN FromInt(RoundCents(RMul(costPost, <<5, 4>>)))
                   ELSE costPost
        autoMax == IF IsFinite(costPost) THEN FromInt(RoundCents(RMul(costPost, <<7, 5>>)))
                   ELSE costPost
    IN [it EXCEPT !.costPreShipping = l.unitCost,
                  !.costPostShipping = costPost,
                  !.minPrice = autoMin,
                  !.maxPrice = autoMax,
                  !.minProfit = RSub(autoMin, costPost),
                  !.maxProfit = RSub(autoMax, costPost)]

\* the cost and price fields an item takes from an allocated line
\* (1.25 and 1.4 are the markups of the purchase-driven recalculation)
withCostsOf(it, l) ==
    LET costPost == l.unitCostPostShipping
        autoMin == MathCeil(RMul(costPost, <<5, 4>>))
        autoMax == MathCeil(RMul(costPost, <<7, 5>>))
    IN [it EXCEPT !.costPreShipping = l.unitCost,
                  !.costPostShipping = costPost,
                  !.minPrice = autoMin,
                  !.maxPrice = autoMax,
                  !.minProfit = RSub(autoMin, costPost),
                  !.maxProfit = RSub(autoMax, costPost)]

\* PurchaseForm.save, lines 918-954: the lines in order, each adding its units to its
\* item after taking off the units of the first old line of that item
RECURSIVE updateInventory(_, _, _)
updateInventory(its, oldLines, ls) ==
    IF ls = <<>> THEN its
    ELSE LET l == Head(ls)
             hits == {j \in 1..Len(oldLines) : oldLines[j].itemId = l.itemId}
             oldUnits == IF hits = {} THEN 0
                         ELSE lineUnits(oldLines[CHOOSE j \in hits : \A k \in hits : j <= k])
         IN updateInventory(
               [i \in 1..Len(its) |->
                  IF its[i].id # l.itemId THEN its[i]
                  ELSE LET currentStock == IF hits = {} THEN its[i].stock
                                           ELSE Max(0, its[i].stock - oldUnits)
                       IN [withCostsOf(its[i], l) EXCEPT !.stock = currentStock + lineUnits(l)]],
               oldLines, Tail(ls))

\* the cost-only update in which the first line naming an item wins
RECURSIVE updateCostsOnly_firstLine(_, _)
updateCostsOnly_firstLine(its, ls) ==
    IF ls = <<>> THEN its
    ELSE LET rest == updateCostsOnly_firstLine(its, Tail(ls))
         IN [i \in 1..Len(rest) |->
               IF rest[i].id # Head(ls).itemId THEN rest[i] ELSE withCostsOf(rest[i], Head(ls))]

\* PurchaseForm.save, lines 957-977: costs only
RECURSIVE updateCostsOnly(_, _)
updateCostsOnly(its, ls) ==
    IF ls = <<>> THEN its
    ELSE updateCostsOnly(
            [i \in 1..Len(its) |->
               IF its[i].id # Head(ls).itemId THEN its[i] ELSE withCostsOf(its[i], Head(ls))],
            Tail(ls))

PurchaseIds(d) == {d.purchases[i].id : i \in 1..Len(d.purchases)}
LinkedIds(d) == {d.cashWithdrawals[i].linkedPurchaseId : i \in 1..Len(d.cashWithdrawals)}

\* PurchasesPage.handleSave: updatedWithdrawals is <<list>> when the form passes one, <<>> if not
PurchasesPage_handleSave_result(d, purchase, updatedItems, updatedWithdrawals) ==
    LET exists == FindIdx(d.purchases, purchase.id) # 0
        known == {d.items[i].id : i \in 1..Len(d.items)}
        itemsWorking == ReplaceById(d.items, updatedItems)
                        \o SelectSeq(updatedItems, LAMBDA ui : ui.id \notin known)
        nextPurchases == IF exists
                         THEN [i \in 1..Len(d.purchases) |->
                                 IF d.purchases[i].id = purchase.id THEN purchase
                                 ELSE d.purchases[i]]
                         ELSE Append(d.purchases, purchase)
        nextWithdrawals == IF updatedWithdrawals # <<>> THEN updatedWithdrawals[1]
                           ELSE d.cashWithdrawals
    IN [d EXCEPT !.items = itemsWorking,
                 !.purchases = nextPurchases,
                 !.cashWithdrawals = nextWithdrawals]

\* the save that checks only that the draft has a line
PurchaseForm_save_result_anyLines(d, initial, form) ==
    LET lines == form.lines
        units == totalUnits(lines)
        totalWeight == totalWeightOf(d.items, lines)
        enriched == [i \in 1..Len(lines) |->
                       enrichLine(d.items, lines[i], units, totalWeight,
                                  d.settings.taxRatePercent, form.shipUS, form.shipIntl)]
        totalCost == form.subtotal + form.tax + form.shipUS + form.shipIntl
        p == [id |-> IF initial = 0 THEN FreshId(PurchaseIds(d) \cup LinkedIds(d))
                     ELSE d.purchases[initial].id,
              lines |-> enriched,
              subtotal |-> form.subtotal,
              tax |-> form.tax,
              shippingUS |-> form.shipUS,
              shippingIntl |-> form.shipIntl,
              weightLbs |-> form.weight,
              totalUnits |-> units,
              totalCost |-> totalCost,
              cashUsed |-> form.cashToUse,
              paymentSource |-> calculatePaymentBreakdown(totalCost, form.cashToUse).paymentSource]
        oldLines == IF initial = 0 THEN <<>> ELSE d.purchases[initial].lines
        itemsUpdated == IF initial = 0 \/ hasQuantityChanges(oldLines, enriched)
                        THEN updateInventory(d.items, oldLines, enriched)
                        ELSE updateCostsOnly(d.items, enriched)
        tempPurchases == IF FindIdx(d.purchases, p.id) # 0
                         THEN [i \in 1..Len(d.purchases) |->
                                 IF d.purchases[i].id = p.id THEN p ELSE d.purchases[i]]
                         ELSE Append(d.purchases, p)
        result == processPurchaseWithCash(
                      [d EXCEPT !.items = itemsUpdated, !.purchases = tempPurchases],
                      p, form.cashToUse, form.withdrawalReason)
    IN IF lines = <<>>
       THEN [error |-> "validation", id |-> p.id, db |-> d]
       ELSE IF form.cashToUse > 0
       THEN IF result.threw
            THEN [error |-> "Insufficient cash available for withdrawal", id |-> p.id, db |-> d]
            ELSE [error |-> "", id |-> p.id,
                  db |-> PurchasesPage_handleSave_result(
                             d,
                             result.updatedDb.purchases[FindIdx(result.updatedDb.purchases, p.id)],
                             itemsUpdated,
                             <<result.updatedDb.cashWithdrawals>>)]
       ELSE [error |-> "", id |-> p.id,
             db |-> PurchasesPage_handleSave_result(d, p, itemsUpdated, <<>>)]

\* PurchaseForm.save.  initial is the index of the edited purchase, 0 for a new one;
\* form holds the state of the form: lines, subtotal, tax, shipUS, shipIntl, weight,
\* cashToUse and withdrawalReason.  The items of the form are those of the DB.
PurchaseForm_save_result(d, initial, form) ==
    LET lines == form.lines
        items == d.items
        taxRate == d.settings.taxRatePercent
        units == totalUnits(lines)
        totalWeight == totalWeightOf(items, lines)
        enriched == [i \in 1..Len(lines) |->
                       enrichLine(items, lines[i], units, totalWeight, taxRate,
                                  form.shipUS, form.shipIntl)]
        totalCost == form.subtotal + form.tax + form.shipUS + form.shipIntl
        p == [id |-> IF initial = 0 THEN FreshId(PurchaseIds(d) \cup LinkedIds(d))
                     ELSE d.purchases[initial].id,
              lines |-> enriched,
              subtotal |-> form.subtotal,
              tax |-> form.tax,
              shippingUS |-> form.shipUS,
              shippingIntl |-> form.shipIntl,
              weightLbs |-> form.weight,
              totalUnits |-> units,
              totalCost |-> totalCost,
              cashUsed |-> form.cashToUse,
              paymentSource |-> calculatePaymentBreakdown(totalCost, form.cashToUse).paymentSource]
        oldLines == IF initial = 0 THEN <<>> ELSE d.purchases[initial].lines
        shouldUpdateInventory == initial = 0 \/ hasQuantityChanges(oldLines, enriched)
        itemsUpdated == IF shouldUpdateInventory THEN updateInventory(items, oldLines, enriched)
                        ELSE updateCostsOnly(items, enriched)
        exists == FindIdx(d.purchases, p.id) # 0
        tempPurchases == IF exists
                         THEN [i \in 1..Len(d.purchases) |->
                                 IF d.purchases[i].id = p.id THEN p ELSE d.purchases[i]]
                         ELSE Append(d.purchases, p)
        result == processPurchaseWithCash(
                      [d EXCEPT !.items = itemsUpdated, !.purchases = tempPurchases],
                      p, form.cashToUse, form.withdrawalReason)
    IN IF lines = <<>> \/ \E i \in 1..Len(lines) : lines[i].itemId = ""
       THEN [error |-> "validation", id |-> p.id, db |-> d]
       ELSE IF form.cashToUse > 0
       THEN IF result.threw
            THEN [error |-> "Insufficient cash available for withdrawal", id |-> p.id, db |-> d]
            ELSE [error |-> "", id |-> p.id,
                  db |-> PurchasesPage_handleSave_result(
                             d,
                             result.updatedDb.purchases[FindIdx(result.updatedDb.purchases, p.id)],
                             itemsUpdated,
                             <<result.updatedDb.cashWithdrawals>>)]
       ELSE [error |-> "", id |-> p.id,
             db |-> PurchasesPage_handleSave_result(d, p, itemsUpdated, <<>>)]

PurchaseForm_save(initial, form) ==
    LET r == PurchaseForm_save_result(db, initial, form)
    IN /\ db' = r.db
       /\ last' = [op |-> "PurchaseForm.save",
                   arg |-> [initial |-> initial, id |-> r.id, cashToUse |-> form.cashToUse,
                            withdrawalReason |-> form.withdrawalReason],
                   error |-> r.error]

\* the delete taking the units of the first line of each item only
PurchasesPage_onDelete_result_firstLine(d, id) ==
    LET idx == FindIdx(d.purchases, id)
        nextItems ==
            [i \in 1..Len(d.items) |->
               LET p == d.purchases[idx]
                   hits == {j \in 1..Len(p.lines) : p.lines[j].itemId = d.items[i].id}
                   qty == IF hits = {} THEN 0
                          ELSE lineUnits(p.lines[CHOOSE j \in hits : \A k \in hits : j <= k])
               IN [d.items[i] EXCEPT !.stock = Max(0, @ - qty)]]
    IN [d EXCEPT !.items = IF idx # 0 THEN nextItems ELSE d.items,
                 !.purchases = SelectSeq(@, LAMBDA x : x.id # id)]

\* the delete taking the units off the stock without the floor at 0
PurchasesPage_onDelete_result_unclamped(d, id) ==
    LET idx == FindIdx(d.purchases, id)
        nextItems ==
            [i \in 1..Len(d.items) |->
               LET p == d.purchases[idx]
                   qty == SumSeq([j \in 1..Len(p.lines) |->
                                    IF p.lines[j].itemId = d.items[i].id
                                    THEN lineUnits(p.lines[j]) ELSE 0])
               IN [d.items[i] EXCEPT !.stock = @ - qty]]
    IN [d EXCEPT !.items = IF idx # 0 THEN nextItems ELSE d.items,
                 !.purchases = SelectSeq(@, LAMBDA x : x.id # id)]

\* PurchasesPage.onDelete: the document without the purchase, every item without the
\* units the purchase's lines hold of it
PurchasesPage_onDelete_result(d, id) ==
    LET idx == FindIdx(d.purchases, id)
        nextItems ==
            [i \in 1..Len(d.items) |->
               LET p == d.purchases[idx]
                   qty == SumSeq([j \in 1..Len(p.lines) |->
                                    IF p.lines[j].itemId = d.items[i].id
                                    THEN lineUnits(p.lines[j]) ELSE 0])
               IN [d.items[i] EXCEPT !.stock = Max(0, @ - qty)]]
    IN [d EXCEPT !.items = IF idx # 0 THEN nextItems ELSE d.items,
                 !.purchases = SelectSeq(@, LAMBDA x : x.id # id)]

PurchasesPage_onDelete(id) ==
    /\ db' = PurchasesPage_onDelete_result(db, id)
    /\ last' = [op |-> "PurchasesPage.onDelete", arg |-> id, error |-> ""]

-----------------------------------------------------------------------------
(* InventoryPage.handleRecalculatePrices: the recalculation sweep *)

\* lines 127-151: one line of a stored purchase with its allocations recomputed
recalcLine(its, l, purchase, units, totalWeight) ==
    LET itemWeight == itemWeightOf(its, l.itemId)
        lUnits == lineUnits(l)
        lineWeight == itemWeight * lUnits
        lineCost == l.quantity * l.unitCost
        perUnitTax == IF purchase.subtotal > 0
                      THEN RDiv(FromInt(purchase.tax * lineCost),
                                FromInt(purchase.subtotal * l.quantity))
                      ELSE FromInt(0)
        perUnitShippingUS == IF purchase.shippingUS > 0 /\ units # 0
                             THEN RDiv(FromInt(purchase.shippingUS), FromInt(units))
                             ELSE FromInt(0)
        weightRatio == IF totalWeight > 0 THEN RDiv(FromInt(lineWeight), FromInt(totalWeight))
                       ELSE FromInt(0)
        perUnitShippingIntl == IF lUnits > 0
                               THEN RDiv(RMul(FromInt(purchase.shippingIntl), weightRatio),
                                         FromInt(lUnits))
                               ELSE FromInt(0)
    IN [l EXCEPT !.perUnitTax = perUnitTax,
                 !.perUnitShippingUS = perUnitShippingUS,
                 !.perUnitShippingIntl = perUnitShippingIntl,
                 !.unitCostPostShipping =
                     RAdd(RAdd(RAdd(FromInt(l.unitCost), perUnitTax), perUnitShippingUS),
                          perUnitShippingIntl)]

\* the sweep rebuilding the purchase without its payment fields
recalcPurchase_dropsPayment(its, purchase) ==
    LET units == totalUnits(purchase.lines)
        totalWeight == totalWeightOf(its, purchase.lines)
    IN [purchase EXCEPT !.lines = [i \in 1..Len(purchase.lines) |->
                                     recalcLine(its, purchase.lines[i], purchase, units,
                                                totalWeight)],
                        !.cashUsed = 0,
                        !.paymentSource = "external"]

recalcPurchase(its, purchase) ==
    LET units == totalUnits(purchase.lines)
        totalWeight == totalWeightOf(its, purchase.lines)
    IN [purchase EXCEPT !.lines = [i \in 1..Len(purchase.lines) |->
                                     recalcLine(its, purchase.lines[i], purchase, units,
                                                totalWeight)]]

\* the purchases in stored order, each refreshing the items of its recomputed lines
RECURSIVE recalcSweep(_, _, _)
recalcSweep(updatedItems, updatedPurchases, k) ==
    IF k > Len(updatedPurchases) THEN [items |-> updatedItems, purchases |-> updatedPurchases]
    ELSE LET purchase == recalcPurchase(updatedItems, updatedPurchases[k])
         IN recalcSweep(updateCostsOnly(updatedItems, purchase.lines),
                        [updatedPurchases EXCEPT ![k] = purchase],
                        k + 1)

handleRecalculatePrices ==
    LET r == recalcSweep(db.items, db.purchases, 1)
    IN /\ db' = [db EXCEPT !.items = r.items, !.purchases = r.purchases]
       /\ last' = [op |-> "InventoryPage.handleRecalculatePrices", arg |-> 0, error |-> ""]

-----------------------------------------------------------------------------
(* The initial document and the inputs of the forms *)

\* an item as the item forms create it: no stock, no cost yet
NewItem(id, weightLbs) ==
    [id |-> id, stock |-> 0, weightLbs |-> weightLbs,
     costPreShipping |-> 0, costPostShipping |-> FromInt(0),
     minPrice |-> FromInt(500), maxPrice |-> FromInt(1000),
     minProfit |-> FromInt(0), maxProfit |-> FromInt(0)]

\* the DB of loadDB once two items were added with the quick-add form
InitialDb ==
    [items |-> <<NewItem("i1", 1), NewItem("i2", 3)>>,
     purchases |-> <<>>,
     sales |-> <<>>,
     settings |-> DEFAULT_SETTINGS,
     cashWithdrawals |-> <<>>,
     transactions |-> <<>>,
     branches |-> <<>>]

Init ==
    /\ db = InitialDb
    /\ last = [op |-> "init", arg |-> 0, error |-> ""]

Line(itemId, quantity, unitCost, hasSubItems, subItemsQty) ==
    [itemId |-> itemId, quantity |-> quantity, unitCost |-> unitCost,
     hasSubItems |-> hasSubItems, subItemsQty |-> subItemsQty]

DefaultReason == [prefix |-> "", text |-> "Business re-investment"]

\* The cash the purchase form can hold when it is saved: none, the cashUsed of the
\* edited purchase (useState(initial?.cashUsed ?? 0)), an amount the RevenueManager
\* let through (canProceed).
CashToUseChoices(d, initial, Typed) ==
    {0}
    \cup (IF initial # 0 THEN {d.purchases[initial].cashUsed} ELSE {})
    \cup {c \in Typed : canWithdrawCash(d, c)}

\* The states of the purchase form at save: the subtotal of the lines, the tax the
\* form computes for it (on an edit, as entered), the other footer fields and the
\* cash as entered.
PurchaseForms(d, initial, LineLists, ShipUSSet, ShipIntlSet, Typed) ==
    UNION {
      LET subtotal == calcSubtotal(ls)
          tax == autoTaxOf(subtotal, d.settings.taxRatePercent)
      IN {[lines |-> ls, subtotal |-> subtotal, tax |-> tax, shipUS |-> su, shipIntl |-> si,
           weight |-> 1, cashToUse |-> c, withdrawalReason |-> DefaultReason] :
             c \in CashToUseChoices(d, initial, Typed)}
      : ls \in LineLists, su \in ShipUSSet, si \in ShipIntlSet}

TxForm(type, amount, description, category, paymentSource, cashAmount, externalAmount) ==
    [type |-> type, amount |-> amount, description |-> description, category |-> category,
     paymentSource |-> paymentSource, cashAmount |-> cashAmount,
     externalAmount |-> externalAmount]

-----------------------------------------------------------------------------
(* Spec: the application, every handler, over a small catalogue of inputs *)

SpecLineLists == {<<Line("i1", 1, c, FALSE, 0)>> : c \in {0, 1000}}
SpecTyped == {500, 2000}
SpecSaleLineLists == {<<[itemId |-> "i1", quantity |-> 1, unitPrice |-> 2500]>>}
SpecTxForms ==
    {TxForm("expense", 1000, "d", "c", "revenue", 0, 0),
     TxForm("fee", 1000, "d", "c", "mixed", 600, 400),
     TxForm("expense", 1000, "d", "c", "mixed", 0, 1000),
     TxForm("income", 1000, "d", "c", "external", 0, 0),
     TxForm("expense", 1000, "d", "c", "external", 0, 0),
     TxForm("discount", 1000, "", "c", "external", 0, 0)}

SavePurchase ==
    \E initial \in 0..Len(db.purchases) :
      \E form \in PurchaseForms(db, initial, SpecLineLists, {0}, {0}, SpecTyped) :
        /\ initial = 0 => Len(db.purchases) < MaxPurchases
        /\ PurchaseForm_save(initial, form)
        /\ Len(db'.cashWithdrawals) <= MaxWithdrawals

DeletePurchase ==
    \E i \in 1..Len(db.purchases) : PurchasesPage_onDelete(db.purchases[i].id)

SaveSale ==
    \E initial \in 0..Len(db.sales) :
      \E lines \in SpecSaleLineLists :
        /\ initial = 0 => Len(db.sales) < MaxSales
        /\ SaleForm_save(initial, lines)

DeleteSale ==
    \E i \in 1..Len(db.sales) : SalesPage_onDelete(db.sales[i].id)

SubmitTransaction ==
    \E initial \in 0..Len(db.transactions) :
      \E formData \in SpecTxForms :
        /\ initial = 0 => Len(db.transactions) < MaxTransactions
        /\ TransactionForm_handleSubmit(initial, formData)
        /\ Len(db'.cashWithdrawals) <= MaxWithdrawals

DeleteTransaction ==
    \E i \in 1..Len(db.transactions) : TransactionsPage_onDelete(db.transactions[i].id)

RecalculateAll == handleRecalculatePrices

Next ==
    \/ SavePurchase
    \/ DeletePurchase
    \/ SaveSale
    \/ DeleteSale
    \/ SubmitTransaction
    \/ DeleteTransaction
    \/ RecalculateAll

Spec == Init /\ [][Next]_vars

-----------------------------------------------------------------------------
(* SpecListed: only the operations that add cash or spend it through the     *)
(* ledger: registering a sale, adding an income, saving a new purchase,      *)
(* editing a purchase, saving an expense or a fee, recalculating.  Nothing   *)
(* is deleted and no sale or income is edited.                               *)

ListedTxForms ==
    {TxForm("expense", 1000, "d", "c", "revenue", 0, 0),
     TxForm("expense", 2000, "d", "c", "revenue", 0, 0),
     TxForm("fee", 1000, "d", "c", "mixed", 600, 400),
     TxForm("fee", 1000, "d", "c", "mixed", 0, 1000)}

Incomes(d) == {i \in 1..Len(d.transactions) : d.transactions[i].type = "income"}

RegisterSale ==
    \E lines \in SpecSaleLineLists :
        /\ Len(db.sales) < MaxSales
        /\ SaleForm_save(0, lines)

AddIncome ==
    /\ Cardinality(Incomes(db)) < MaxIncomes
    /\ TransactionForm_handleSubmit(0, TxForm("income", 1000, "d", "c", "external", 0, 0))

SaveNewPurchase ==
    \E form \in PurchaseForms(db, 0, SpecLineLists, {0}, {0}, SpecTyped) :
        /\ Len(db.purchases) < MaxPurchases
        /\ PurchaseForm_save(0, form)
        /\ Len(db'.cashWithdrawals) <= MaxWithdrawals

EditPurchase ==
    \E initial \in 1..Len(db.purchases) :
      \E form \in PurchaseForms(db, initial, SpecLineLists, {0}, {0}, SpecTyped) :
        /\ PurchaseForm_save(initial, form)
        /\ Len(db'.cashWithdrawals) <= MaxWithdrawals

SaveExpenseOrFee ==
    \E initial \in {0} \cup ((1..Len(db.transactions)) \ Incomes(db)) :
      \E formData \in ListedTxForms :
        /\ initial = 0 => Len(db.transactions) - Cardinality(Incomes(db)) < MaxTransactions
        /\ TransactionForm_handleSubmit(initial, formData)
        /\ Len(db'.cashWithdrawals) <= MaxWithdrawals

NextListed ==
    \/ RegisterSale
    \/ AddIncome
    \/ SaveNewPurchase
    \/ EditPurchase
    \/ SaveExpenseOrFee
    \/ RecalculateAll

SpecListed == Init /\ [][NextListed]_vars

-----------------------------------------------------------------------------
(* SpecFunctions: the functions of the ledger and the save handler of the    *)
(* transactions page called directly, on arguments the forms would not pass  *)

\* RevenueService.calculatePaymentBreakdown(totalCost, cashToUse)
Call_calculatePaymentBreakdown(totalCost, cashToUse) ==
    /\ db' = db
    /\ last' = [op |-> "RevenueService.calculatePaymentBreakdown",
                arg |-> [totalCost |-> totalCost, cashToUse |-> cashToUse],
                error |-> "",
                result |-> calculatePaymentBreakdown(totalCost, cashToUse)]

\* RevenueService.processTransactionWithCash(db, transaction)
Call_processTransactionWithCash(transaction) ==
    /\ db' = db
    /\ last' = [op |-> "RevenueService.processTransactionWithCash",
                arg |-> transaction,
                error |-> processTransactionWithCash(db, transaction).error,
                result |-> processTransactionWithCash(db, transaction)]

\* transactions of every type carrying every payment source; the amounts leave the
\* cash of one sale sufficient (1000, 600 of it in cash) or not (3000, 2600 in cash)
FnTransactions(id) ==
    {[id |-> id, type |-> type, amount |-> a[1], description |-> "d", category |-> "c",
      paymentSource |-> ps,
      cashAmount |-> IF ps = "mixed" THEN a[2] ELSE 0,
      externalAmount |-> IF ps = "mixed" THEN a[1] - a[2] ELSE 0] :
        type \in {"income", "discount", "expense", "fee"},
        ps \in {"none", "revenue", "mixed", "external"},
        a \in {<<1000, 600>>, <<3000, 2600>>}}

BreakdownCall ==
    \E totalCost \in 0..MaxCost : \E cashToUse \in (-1)..(MaxCost + 1) :
        Call_calculatePaymentBreakdown(totalCost, cashToUse)

ProcessTransactionCall ==
    \E transaction \in FnTransactions(FreshId(TransactionIds(db))) :
        Call_processTransactionWithCash(transaction)

HandleSaveCall ==
    \E id \in TransactionIds(db) \cup {FreshId(TransactionIds(db))} :
      \E transaction \in FnTransactions(id) :
        /\ id \notin TransactionIds(db) => Len(db.transactions) < MaxTransactions
        /\ TransactionsPage_handleSave(transaction)
        /\ Len(db'.cashWithdrawals) <= MaxWithdrawals

NextFunctions ==
    \/ RegisterSale
    \/ BreakdownCall
    \/ ProcessTransactionCall
    \/ HandleSaveCall

SpecFunctions == Init /\ [][NextFunctions]_vars

-----------------------------------------------------------------------------
(* SpecTransactions: the transaction form over a wider range of entries *)

\* amount, cashAmount, externalAmount as entered: parts that sum to the amount, with
\* and without cash; parts off by one cent and by more; cash above what a sale brings
SplitEntries ==
    {<<1000, 600, 400>>, <<1000, 0, 1000>>, <<1000, 600, 401>>, <<1000, 600, 300>>,
     <<3000, 2600, 400>>, <<1000, 0, 0>>}

WideTxForms ==
    {TxForm(type, e[1], description, "c", ps, e[2], e[3]) :
        type \in {"expense", "fee", "income"},
        description \in {"", "d"},
        ps \in {"mixed", "revenue"},
        e \in SplitEntries}

SubmitWideTransaction ==
    \E initial \in 0..Len(db.transactions) :
      \E formData \in WideTxForms :
        /\ initial = 0 => Len(db.transactions) < MaxTransactions
        /\ TransactionForm_handleSubmit(initial, formData)
        /\ Len(db'.cashWithdrawals) <= MaxWithdrawals

NextTransactions ==
    \/ RegisterSale
    \/ SubmitWideTransaction
    \/ DeleteTransaction

SpecTransactions == Init /\ [][NextTransactions]_vars

-----------------------------------------------------------------------------
(* SpecPurchases: the purchase form over purchases of one or two lines, two  *)
(* lines of one purchase naming the same item or not; no cash is used        *)

PurchaseLineChoices ==
    {Line("i1", q, 1000, FALSE, 0) : q \in 1..MaxQty}
    \cup {Line("i2", 1, 1000, TRUE, 1)}

PurchaseLineLists ==
    {<<l>> : l \in PurchaseLineChoices}
    \cup {<<l1, l2>> : l1 \in PurchaseLineChoices, l2 \in PurchaseLineChoices}

StockWithin(d) == \A i \in 1..Len(d.items) : d.items[i].stock <= MaxStock

SaveLinesPurchase ==
    \E initial \in 0..Len(db.purchases) :
      \E form \in PurchaseForms(db, initial, PurchaseLineLists, {0, 50}, {0}, {}) :
        /\ initial = 0 => Len(db.purchases) < MaxPurchases
        /\ PurchaseForm_save(initial, form)
        /\ StockWithin(db')

NextPurchases ==
    \/ SaveLinesPurchase
    \/ DeletePurchase
    \/ RecalculateAll

SpecPurchases == Init /\ [][NextPurchases]_vars

-----------------------------------------------------------------------------
(* SpecAllocation: new purchases over a catalogue of entries that covers the  *)
(* allocation rules (unequal units, unequal weights, sub-items, a line with   *)
(* quantity 0, an item without weight, no units at all, a subtotal of 0, two  *)
(* lines of one item), each saved, recalculated and deleted                    *)

MaxStored == 1

\* the document once a third item, with no weight entered, was added with quick-add
AllocationDb == [InitialDb EXCEPT !.items = Append(@, NewItem("i3", 0))]

InitAllocation ==
    /\ db = AllocationDb
    /\ last = [op |-> "init", arg |-> 0, error |-> ""]

\* the weight field once the lines were entered: Math.max(1, Math.ceil(newWeight)) when
\* the lines weigh something, the initial 1 if not (item weights are whole pounds here)
autoWeightOf(its, ls) ==
    LET newWeight == totalWeightOf(its, ls)
    IN IF newWeight > 0 THEN Max(1, newWeight) ELSE 1

\* the international shipping the form derives from the weight: weight * weightCost
defaultIntlOf(d, weight) == weight * d.settings.weightCostPerLb

\* the lines entered, the US shipping entered, the subtotal and the international
\* shipping typed over the derived ones (<<>> when the field is left as derived)
Entry(ls, typedSubtotal, shipUS, typedIntl) ==
    [lines |-> ls, typedSubtotal |-> typedSubtotal, shipUS |-> shipUS,
     typedIntl |-> typedIntl]

AllocationEntries ==
    {Entry(<<Line("i1", 3, 1000, FALSE, 0), Line("i2", 7, 2000, FALSE, 0)>>, <<>>, 5000, <<>>),
     Entry(<<Line("i1", 2, 4000, FALSE, 0), Line("i2", 2, 4000, FALSE, 0)>>, <<>>, 0, <<4000>>),
     Entry(<<Line("i1", 1, 4000, TRUE, 1)>>, <<>>, 0, <<>>),
     Entry(<<Line("i1", 1, 4000, FALSE, 0), Line("i2", 0, 1000, FALSE, 0)>>, <<>>, 5000, <<>>),
     Entry(<<Line("i3", 1, 4000, FALSE, 0)>>, <<>>, 0, <<>>),
     Entry(<<Line("i1", 0, 1000, FALSE, 0)>>, <<>>, 5000, <<>>),
     Entry(<<Line("i1", 1, 1000, FALSE, 0), Line("i1", 1, 2000, FALSE, 0)>>, <<>>, 0, <<>>),
     Entry(<<Line("i2", 1, 0, FALSE, 0)>>, <<>>, 0, <<>>),
     Entry(<<Line("i2", 1, 1000, FALSE, 0)>>, <<4000>>, 0, <<>>)}

\* the state of the form of a new purchase after an entry: the subtotal follows the
\* lines unless typed, the tax follows the subtotal, the weight follows the lines and
\* the international shipping follows the weight unless typed
AllocationForm(d, e) ==
    LET subtotal == IF e.typedSubtotal # <<>> THEN e.typedSubtotal[1]
                    ELSE calcSubtotal(e.lines)
        weight == autoWeightOf(d.items, e.lines)
    IN [lines |-> e.lines,
        subtotal |-> subtotal,
        tax |-> autoTaxOf(subtotal, d.settings.taxRatePercent),
        shipUS |-> e.shipUS,
        shipIntl |-> IF e.typedIntl # <<>> THEN e.typedIntl[1] ELSE defaultIntlOf(d, weight),
        weight |-> weight,
        cashToUse |-> 0,
        withdrawalReason |-> DefaultReason]

SaveAllocated ==
    \E e \in AllocationEntries :
       /\ Len(db.purchases) < MaxStored
       /\ PurchaseForm_save(0, AllocationForm(db, e))

NextAllocation ==
    \/ SaveAllocated
    \/ DeletePurchase
    \/ RecalculateAll

SpecAllocation == InitAllocation /\ [][NextAllocation]_vars

-----------------------------------------------------------------------------
(* SpecSweep: the recalculation sweep over several stored purchases that name *)
(* the same items, item i3 being on no line                                   *)

MaxSwept == 2

SweepEntries ==
    {Entry(<<Line("i1", 1, 1000, FALSE, 0), Line("i1", 1, 2000, FALSE, 0)>>, <<>>, 0, <<>>),
     Entry(<<Line("i1", 1, 4000, TRUE, 1)>>, <<>>, 0, <<>>),
     Entry(<<Line("i2", 2, 1000, FALSE, 0), Line("i1", 1, 3000, FALSE, 0)>>, <<>>, 5000, <<>>)}

SaveSwept ==
    \E e \in SweepEntries :
       /\ Len(db.purchases) < MaxSwept
       /\ PurchaseForm_save(0, AllocationForm(db, e))

NextSweep ==
    \/ SaveSwept
    \/ DeletePurchase
    \/ RecalculateAll

SpecSweep == InitAllocation /\ [][NextSweep]_vars

-----------------------------------------------------------------------------
(* SpecIntl: new purchases whose lines weigh differently: the 1 lb and the    *)
(* 3 lb item, an item without weight beside a weighted one, a line whose      *)
(* item is no longer in the inventory, a line with sub-items                   *)

IntlEntries ==
    {Entry(<<Line("i1", 2, 4000, FALSE, 0), Line("i2", 2, 4000, FALSE, 0)>>, <<>>, 0, <<4000>>),
     Entry(<<Line("i1", 2, 1000, FALSE, 0), Line("i3", 1, 1000, FALSE, 0)>>, <<>>, 0, <<>>),
     Entry(<<Line("i2", 1, 1000, FALSE, 0), Line("gone", 3, 1000, FALSE, 0)>>, <<>>, 0, <<>>),
     Entry(<<Line("i1", 1, 2000, TRUE, 2), Line("i2", 1, 1000, FALSE, 0)>>, <<>>, 5000, <<>>),
     Entry(<<Line("i3", 2, 1000, FALSE, 0)>>, <<>>, 0, <<3000>>)}

SaveWeighed ==
    \E e \in IntlEntries :
       /\ Len(db.purchases) < MaxStored
       /\ PurchaseForm_save(0, AllocationForm(db, e))

NextIntl ==
    \/ SaveWeighed
    \/ DeletePurchase
    \/ RecalculateAll

SpecIntl == InitAllocation /\ [][NextIntl]_vars

-----------------------------------------------------------------------------
(* SpecPayments: a sale, up to two purchases paid with cash or not, an       *)
(* expense, and processPurchaseWithCash called directly on a stored purchase *)

MaxPaid == 2

\* RevenueService.processPurchaseWithCash(db, purchase, cashToUse, withdrawalReason):
\* the function builds its result from copies and assigns to nothing it was given
Call_processPurchaseWithCash(purchase, cashToUse) ==
    LET r == processPurchaseWithCash(db, purchase, cashToUse, DefaultReason)
    IN /\ db' = db
       /\ last' = [op |-> "RevenueService.processPurchaseWithCash",
                   arg |-> [id |-> purchase.id, cashToUse |-> cashToUse],
                   error |-> IF r.threw THEN "Insufficient cash available for withdrawal"
                             ELSE "",
                   result |-> r]

PaidLineLists == {<<Line("i1", 1, 1000, FALSE, 0)>>, <<Line("i2", 1, 2000, FALSE, 0)>>}

SavePaidPurchase ==
    \E form \in PurchaseForms(db, 0, PaidLineLists, {0}, {0}, {500}) :
        /\ Len(db.purchases) < MaxPaid
        /\ PurchaseForm_save(0, form)
        /\ Len(db'.cashWithdrawals) <= MaxWithdrawals

SaveExpense ==
    /\ Len(db.transactions) < MaxTransactions
    /\ TransactionForm_handleSubmit(0, TxForm("expense", 1000, "d", "c", "revenue", 0, 0))
    /\ Len(db'.cashWithdrawals) <= MaxWithdrawals

ProcessPurchaseCall ==
    \E i \in 1..Len(db.purchases) : \E cashToUse \in {0, 500, 3000} :
        Call_processPurchaseWithCash(db.purchases[i], cashToUse)

NextPayments ==
    \/ RegisterSale
    \/ SavePaidPurchase
    \/ SaveExpense
    \/ ProcessPurchaseCall

SpecPayments == Init /\ [][NextPayments]_vars

-----------------------------------------------------------------------------
(* SpecDrafts: the purchase form saved with drafts that pass the checks of   *)
(* save and drafts that do not: no line at all, a line without an item       *)

\* a line as addLine makes it when the inventory is empty: itemId ''
BlankLine == Line("", 1, 0, FALSE, 0)

InvalidLineLists ==
    {<<>>,
     <<BlankLine>>,
     <<Line("i1", 1, 1000, FALSE, 0), BlankLine>>,
     <<Line("", 2, 1000, FALSE, 0), Line("i2", 1, 1000, FALSE, 0)>>}

DraftLineLists == SpecLineLists \cup InvalidLineLists

SaveDraft ==
    \E initial \in 0..Len(db.purchases) :
      \E form \in PurchaseForms(db, initial, DraftLineLists, {0}, {0}, {500}) :
        /\ initial = 0 => Len(db.purchases) < MaxPurchases
        /\ PurchaseForm_save(initial, form)
        /\ Len(db'.cashWithdrawals) <= MaxWithdrawals

NextDrafts ==
    \/ RegisterSale
    \/ SaveDraft
    \/ DeletePurchase

SpecDrafts == Init /\ [][NextDrafts]_vars

-----------------------------------------------------------------------------
(* SpecStock: purchases and sales of the same items, saved, edited and       *)
(* deleted in any order, with quantities that differ between the versions    *)

StockPurchaseLineLists ==
    {<<Line("i1", q, 1000, FALSE, 0)>> : q \in 0..MaxQty}
    \cup {<<Line("i1", 1, 1000, FALSE, 0), Line("i1", 1, 1000, FALSE, 0)>>,
          <<Line("i2", 1, 1000, TRUE, 1)>>}

StockSaleLineLists ==
    {<<[itemId |-> "i1", quantity |-> q, unitPrice |-> 2500]>> : q \in 1..(MaxQty + 1)}
    \cup {<<[itemId |-> "i1", quantity |-> 1, unitPrice |-> 2500],
            [itemId |-> "i2", quantity |-> 1, unitPrice |-> 2500]>>}

SaveStockPurchase ==
    \E initial \in 0..Len(db.purchases) :
      \E form \in PurchaseForms(db, initial, StockPurchaseLineLists, {0}, {0}, {}) :
        /\ initial = 0 => Len(db.purchases) < MaxPurchases
        /\ PurchaseForm_save(initial, form)
        /\ StockWithin(db')

SaveStockSale ==
    \E initial \in 0..Len(db.sales) :
      \E lines \in StockSaleLineLists :
        /\ initial = 0 => Len(db.sales) < MaxSales
        /\ SaleForm_save(initial, lines)
        /\ StockWithin(db')

DeleteStockSale ==
    /\ DeleteSale
    /\ StockWithin(db')

NextStock ==
    \/ SaveStockPurchase
    \/ DeletePurchase
    \/ SaveStockSale
    \/ DeleteStockSale

SpecStock == Init /\ [][NextStock]_vars

-----------------------------------------------------------------------------
(* Properties of the cash ledger *)

InsufficientCash == "Insufficient cash available for withdrawal"

\* amounts of cash tried on processPurchaseWithCash in every reachable state
CashProbes == {500, 1088, 2000}

StoredPurchase(d, id) == d.purchases[FindIdx(d.purchases, id)]

\* C1: when cashToUse is greater than the available cash, processPurchaseWithCash
\* throws the insufficient-cash error and returns no withdrawal, and a save of the
\* purchase form that asked for that cash leaves the whole DB (items, purchases,
\* withdrawals) as it was.
C1_InsufficientCashPersistsNothing ==
    [][ /\ \A i \in 1..Len(db.purchases) : \A c \in CashProbes :
              c > calculateAvailableCash(db)
              => processPurchaseWithCash(db, db.purchases[i], c, DefaultReason)
                   = [threw |-> TRUE]
        /\ (last'.op = "PurchaseForm.save" /\ last'.arg.cashToUse > calculateAvailableCash(db))
              => (last'.error = InsufficientCash /\ db' = db) ]_vars

\* a save of an edited purchase whose stored cashUsed is above the cash now available
C1_Witness ==
    /\ last.op = "PurchaseForm.save"
    /\ last.arg.cashToUse > calculateAvailableCash(db)
    /\ last.error = InsufficientCash
    /\ db.purchases # <<>>


\* C2: with 0 < cashToUse <= available cash and totalCost > 0, processPurchaseWithCash
\* returns the old withdrawal list followed by exactly one withdrawal of
\* min(cashToUse, totalCost) linked to the purchase, and the stored purchase takes that
\* amount as cashUsed and the paymentSource of calculatePaymentBreakdown; a save of the
\* purchase form persists exactly that.
C2_OneLinkedWithdrawal ==
    [][ /\ \A i \in 1..Len(db.purchases) : \A c \in CashProbes :
              LET purchase == db.purchases[i]
                  amount == Min(c, purchase.totalCost)
                  r == processPurchaseWithCash(db, purchase, c, DefaultReason)
              IN (0 < c /\ c <= calculateAvailableCash(db) /\ purchase.totalCost > 0)
                 => /\ ~r.threw
                    /\ r.updatedDb.cashWithdrawals
                         = Append(db.cashWithdrawals,
                                  [amount |-> amount, reason |-> DefaultReason,
                                   linkedPurchaseId |-> purchase.id])
                    /\ StoredPurchase(r.updatedDb, purchase.id).cashUsed = amount
                    /\ StoredPurchase(r.updatedDb, purchase.id).paymentSource
                         = calculatePaymentBreakdown(purchase.totalCost, c).paymentSource
        /\ (/\ last'.op = "PurchaseForm.save"
            /\ last'.error # "validation"
            /\ 0 < last'.arg.cashToUse
            /\ last'.arg.cashToUse <= calculateAvailableCash(db))
           => /\ last'.error = ""
              /\ LET purchase == StoredPurchase(db', last'.arg.id)
                     amount == Min(last'.arg.cashToUse, purchase.totalCost)
                 IN purchase.totalCost > 0
                    => /\ db'.cashWithdrawals
                            = Append(db.cashWithdrawals,
                                     [amount |-> amount, reason |-> last'.arg.withdrawalReason,
                                      linkedPurchaseId |-> purchase.id])
                       /\ purchase.cashUsed = amount
                       /\ purchase.paymentSource
                            = calculatePaymentBreakdown(purchase.totalCost,
                                                        last'.arg.cashToUse).paymentSource
      ]_vars

\* a purchase saved with more cash than it costs: the withdrawal is clamped to its cost
C2_Witness ==
    /\ last.op = "PurchaseForm.save"
    /\ last.error = ""
    /\ db.purchases # <<>>
    /\ FindIdx(db.purchases, last.arg.id) # 0
    /\ LET purchase == StoredPurchase(db, last.arg.id)
       IN /\ purchase.totalCost > 0
          /\ last.arg.cashToUse > purchase.totalCost
          /\ db.cashWithdrawals # <<>>
          /\ db.cashWithdrawals[Len(db.cashWithdrawals)]
               = [amount |-> purchase.totalCost, reason |-> last.arg.withdrawalReason,
                  linkedPurchaseId |-> purchase.id]
          /\ purchase.paymentSource = "revenue"

\* C3: from a state where the withdrawals do not exceed sales revenue plus income,
\* registering sales, adding incomes, saving new purchases with cash, editing
\* purchases, saving cash-funded expenses and fees and recalculating keep
\* total withdrawals <= total sales revenue + total income.
C3_WithdrawalsWithinCash ==
    calculateTotalWithdrawn(db) <= calculateTotalRevenue(db) + calculateTotalIncome(db)

\* cash spent by a purchase and by an expense, beyond what the sales alone brought in
C3_Witness ==
    /\ \E i \in 1..Len(db.cashWithdrawals) : db.cashWithdrawals[i].linkedPurchaseId # 0
    /\ \E i \in 1..Len(db.cashWithdrawals) : db.cashWithdrawals[i].linkedPurchaseId = 0
    /\ calculateTotalIncome(db) > 0
    /\ calculateTotalWithdrawn(db) > calculateTotalRevenue(db)

\* C4: in every state, also when the withdrawals exceed sales revenue plus income,
\* calculateAvailableCash is max(0, totalRevenue + totalIncome - totalWithdrawn), never
\* negative, totalIncome being the sum of the transactions of type income only.
C4_AvailableCashClamped ==
    LET totalRevenue == SumSeq([i \in 1..Len(db.sales) |-> db.sales[i].totalAmount])
        incomes == SelectSeq(db.transactions, LAMBDA x : x.type = "income")
        totalIncome == SumSeq([i \in 1..Len(incomes) |-> incomes[i].amount])
        totalWithdrawn == SumSeq([i \in 1..Len(db.cashWithdrawals) |->
                                    db.cashWithdrawals[i].amount])
        balance == totalRevenue + totalIncome - totalWithdrawn
    IN /\ calculateAvailableCash(db) = (IF balance > 0 THEN balance ELSE 0)
       /\ calculateAvailableCash(db) >= 0
       /\ calculateTotalIncome(db) = totalIncome

\* withdrawals above revenue plus income (the sale they drew on was deleted), next to
\* an expense that is not counted as income
C4_Witness ==
    /\ calculateTotalWithdrawn(db) > calculateTotalRevenue(db) + calculateTotalIncome(db)
    /\ \E i \in 1..Len(db.transactions) :
          db.transactions[i].type # "income" /\ db.transactions[i].amount > 0
    /\ calculateAvailableCash(db) = 0

C6_TransactionWithdrawal ==
    last.op = "RevenueService.processTransactionWithCash"
    => LET t == last.arg
           r == last.result
           expected == IF t.type \in {"income", "discount"} THEN 0
                       ELSE IF t.paymentSource = "revenue" THEN t.amount
                       ELSE IF t.paymentSource = "mixed" THEN t.cashAmount
                       ELSE 0
           appended == SumSeq([i \in 1..Len(r.withdrawals) |-> r.withdrawals[i].amount])
       IN expected <= calculateAvailableCash(db)
          => /\ r.error = ""
             /\ r.updatedDb.cashWithdrawals = db.cashWithdrawals \o r.withdrawals
             /\ [r.updatedDb EXCEPT !.cashWithdrawals = db.cashWithdrawals] = db
             /\ appended = expected
             /\ \A i \in 1..Len(r.withdrawals) : r.withdrawals[i].amount > 0
             /\ t.type \in {"income", "discount"}
                  => (r.updatedDb = db /\ r.withdrawals = <<>>)
             /\ t.paymentSource = "external" => r.withdrawals = <<>>

\* a mixed fee whose cash part is below its amount, with the cash available
C6_Witness ==
    /\ last.op = "RevenueService.processTransactionWithCash"
    /\ last.arg.type = "fee"
    /\ last.arg.paymentSource = "mixed"
    /\ 0 < last.arg.cashAmount
    /\ last.arg.cashAmount < last.arg.amount
    /\ last.arg.cashAmount <= calculateAvailableCash(db)
    /\ Len(last.result.withdrawals) = 1
    /\ last.result.withdrawals[1].amount = last.arg.cashAmount

\* the cash an expense or a fee asks of the ledger
CashNeeded(t) ==
    IF t.paymentSource = "revenue" THEN t.amount
    ELSE IF t.paymentSource = "mixed" THEN t.cashAmount
    ELSE 0

\* C7: when an expense or a fee needs more cash than is available,
\* processTransactionWithCash returns the DB it was given, no withdrawal and an error
\* (it returns, it does not throw), and TransactionsPage.handleSave then stores neither
\* the transaction nor a withdrawal.
C7_ShortageStoresNothing ==
    [][ /\ (/\ last'.op = "RevenueService.processTransactionWithCash"
            /\ last'.arg.type \in {"expense", "fee"}
            /\ CashNeeded(last'.arg) > calculateAvailableCash(db))
           => /\ last'.result.updatedDb = db
              /\ last'.result.withdrawals = <<>>
              /\ last'.result.error # ""
        /\ (/\ last'.op = "TransactionsPage.handleSave"
            /\ last'.arg.type \in {"expense", "fee"}
            /\ CashNeeded(last'.arg) > calculateAvailableCash(db))
           => /\ db' = db
              /\ last'.error # ""
      ]_vars

\* a fee saved when some cash is available, but less than it needs
C7_Witness ==
    /\ last.op = "TransactionsPage.handleSave"
    /\ last.arg.type = "fee"
    /\ calculateAvailableCash(db) > 0
    /\ CashNeeded(last.arg) > calculateAvailableCash(db)
    /\ last.error # ""
    /\ FindIdx(db.transactions, last.arg.id) = 0

IsMixedExpense(t) == t.type \in {"expense", "fee"} /\ t.paymentSource = "mixed"

\* the form rejects the transaction: nothing is stored, no withdrawal is created
Rejected == last'.error = "validation" /\ db' = db

\* the transaction is stored and exactly one withdrawal, of its cashAmount, is added
AcceptedWithOneWithdrawal ==
    /\ last'.error = ""
    /\ FindIdx(db'.transactions, last'.arg.id) # 0
    /\ db'.transactions[FindIdx(db'.transactions, last'.arg.id)] = last'.arg
    /\ db'.cashWithdrawals
         = Append(db.cashWithdrawals,
                  [amount |-> last'.arg.cashAmount,
                   reason |-> TransactionReason(last'.arg.description),
                   linkedPurchaseId |-> 0])

\* C8 as stated: a mixed expense or fee is rejected before anything is recorded when
\* |cashAmount + externalAmount - amount| > 0.01 or cashAmount exceeds the available
\* cash; when the parts sum to amount and cashAmount <= available cash (description,
\* category and amount being valid) it is accepted and exactly one withdrawal of
\* cashAmount is created.
C8_AsStated ==
    [][ (last'.op = "TransactionForm.handleSubmit" /\ IsMixedExpense(last'.arg))
        => LET t == last'.arg
           IN /\ (\/ Abs(t.cashAmount + t.externalAmount - t.amount) > 1
                  \/ t.cashAmount > calculateAvailableCash(db))
                 => Rejected
              /\ (/\ t.cashAmount + t.externalAmount = t.amount
                  /\ t.cashAmount <= calculateAvailableCash(db)
                  /\ t.description # "" /\ t.category # "" /\ t.amount > 0)
                 => AcceptedWithOneWithdrawal
      ]_vars

\* C8, amended: the same rejections; when the parts sum to amount and
\* 0 < cashAmount <= available cash (description, category and amount being valid) the
\* transaction is accepted and exactly one withdrawal of cashAmount is created; with a
\* cashAmount of 0 it is accepted and no withdrawal is created.
C8_MixedTransaction ==
    [][ (last'.op = "TransactionForm.handleSubmit" /\ IsMixedExpense(last'.arg))
        => LET t == last'.arg
               valid == /\ t.cashAmount + t.externalAmount = t.amount
                        /\ t.description # "" /\ t.category # "" /\ t.amount > 0
           IN /\ (\/ Abs(t.cashAmount + t.externalAmount - t.amount) > 1
                  \/ t.cashAmount > calculateAvailableCash(db))
                 => Rejected
              /\ (valid /\ 0 < t.cashAmount /\ t.cashAmount <= calculateAvailableCash(db))
                 => AcceptedWithOneWithdrawal
              /\ (valid /\ t.cashAmount = 0)
                 => /\ last'.error = ""
                    /\ db'.cashWithdrawals = db.cashWithdrawals
                    /\ FindIdx(db'.transactions, t.id) # 0
      ]_vars

\* a mixed fee of 600 in cash and 400 external, accepted with its withdrawal of 600
C8_Witness ==
    /\ last.op = "TransactionForm.handleSubmit"
    /\ IsMixedExpense(last.arg)
    /\ last.error = ""
    /\ last.arg.cashAmount = 600 /\ last.arg.externalAmount = 400
    /\ db.cashWithdrawals # <<>>
    /\ db.cashWithdrawals[Len(db.cashWithdrawals)].amount = 600
    /\ FindIdx(db.transactions, last.arg.id) # 0

\* C9: in every state reached by saves of purchases and of transactions every cash
\* withdrawal has amount > 0; none is created when no cash is consumed (cashToUse = 0,
\* totalCost = 0, an external payment, a mixed transaction whose cashAmount is 0).
C9_WithdrawalsPositive ==
    \A i \in 1..Len(db.cashWithdrawals) : db.cashWithdrawals[i].amount > 0

\* a new purchase that costs nothing, saved with cash asked for: no withdrawal is linked to it
C9_Witness ==
    /\ last.op = "PurchaseForm.save"
    /\ last.arg.initial = 0
    /\ last.arg.cashToUse > 0
    /\ last.error = ""
    /\ FindIdx(db.purchases, last.arg.id) # 0
    /\ StoredPurchase(db, last.arg.id).totalCost = 0
    /\ StoredPurchase(db, last.arg.id).cashUsed = 0
    /\ \A i \in 1..Len(db.cashWithdrawals) :
          db.cashWithdrawals[i].linkedPurchaseId # last.arg.id

-----------------------------------------------------------------------------
(* Properties of the purchase form *)

\* the step saves an edit of the stored purchase old as the purchase new, every line
\* keeping its item, its quantities and its unit cost
FooterOnlyEdit(old, new) ==
    /\ Len(old.lines) = Len(new.lines)
    /\ \A k \in 1..Len(old.lines) :
          /\ old.lines[k].itemId = new.lines[k].itemId
          /\ old.lines[k].quantity = new.lines[k].quantity
          /\ old.lines[k].hasSubItems = new.lines[k].hasSubItems
          /\ old.lines[k].subItemsQty = new.lines[k].subItemsQty
          /\ old.lines[k].unitCost = new.lines[k].unitCost
    /\ <<old.subtotal, old.tax, old.shippingUS, old.shippingIntl, old.weightLbs>>
         # <<new.subtotal, new.tax, new.shippingUS, new.shippingIntl, new.weightLbs>>

\* the item takes its costs and its price band from the last line of ls that names it
CostsFromLines(it, ls) ==
    LET hits == {k \in 1..Len(ls) : ls[k].itemId = it.id}
        l == ls[CHOOSE k \in hits : \A j \in hits : j <= k]
        costPost == l.unitCostPostShipping
    IN hits # {}
       => /\ it.costPreShipping = l.unitCost
          /\ it.costPostShipping = costPost
          /\ it.minPrice = MathCeil(RMul(costPost, <<5, 4>>))
          /\ it.maxPrice = MathCeil(RMul(costPost, <<7, 5>>))

StockAndCostsAfterFooterEdit(old, new) ==
    /\ \A i \in 1..Len(db.items) : db'.items[i].stock = db.items[i].stock
    /\ \A i \in 1..Len(db'.items) : CostsFromLines(db'.items[i], new.lines)

NoItemTwice(ls) ==
    \A j \in 1..Len(ls) : \A k \in 1..Len(ls) : ls[j].itemId = ls[k].itemId => j = k

\* C10: an edit of a stored purchase that changes only footer fields (subtotal, tax,
\* shippingUS, shippingIntl, weight), every line keeping its item and its billable
\* units, leaves the stock of every item unchanged and overwrites costPreShipping,
\* costPostShipping and the price band of the items of its lines from the freshly
\* allocated lines, whether or not several lines name the same item.
C10_FooterEditKeepsStock ==
    [][ (/\ last'.op = "PurchaseForm.save"
         /\ last'.arg.initial # 0
         /\ last'.error = ""
         /\ FooterOnlyEdit(db.purchases[last'.arg.initial], db'.purchases[last'.arg.initial]))
        => StockAndCostsAfterFooterEdit(db.purchases[last'.arg.initial],
                                        db'.purchases[last'.arg.initial])
      ]_vars

\* the same, for the purchases none of whose lines names the item of another line
C10_FooterEditDistinctItems ==
    [][ (/\ last'.op = "PurchaseForm.save"
         /\ last'.arg.initial # 0
         /\ last'.error = ""
         /\ NoItemTwice(db.purchases[last'.arg.initial].lines)
         /\ FooterOnlyEdit(db.purchases[last'.arg.initial], db'.purchases[last'.arg.initial]))
        => StockAndCostsAfterFooterEdit(db.purchases[last'.arg.initial],
                                        db'.purchases[last'.arg.initial])
      ]_vars

-----------------------------------------------------------------------------
(* Properties of the stock movements of purchases *)

\* the billable units the lines ls hold of an item: quantity plus, for a line with
\* sub-items, subItemsQty
BillableUnits(ls, itemId) ==
    SumSeq([k \in 1..Len(ls) |->
              IF ls[k].itemId = itemId
              THEN ls[k].quantity + (IF ls[k].hasSubItems THEN ls[k].subItemsQty ELSE 0)
              ELSE 0])

UnitsChanged(old, new) ==
    \E i \in 1..Len(db.items) :
       BillableUnits(old.lines, db.items[i].id) # BillableUnits(new.lines, db.items[i].id)

StockReversedThenAdded(old, new) ==
    \A i \in 1..Len(db.items) :
       db'.items[i].stock =
           Max(0, db.items[i].stock - BillableUnits(old.lines, db.items[i].id))
           + BillableUnits(new.lines, db.items[i].id)

\* C11: when a stored purchase is edited and the billable units of some item change,
\* after the save the stock of every item is max(0, stock before - the units the old
\* version held of it) + the units the new version holds of it; an item of the old
\* version that is on no line of the new version loses the old version's units.
C11_EditMovesStock ==
    [][ (/\ last'.op = "PurchaseForm.save"
         /\ last'.arg.initial # 0
         /\ last'.error = ""
         /\ UnitsChanged(db.purchases[last'.arg.initial], db'.purchases[last'.arg.initial]))
        => StockReversedThenAdded(db.purchases[last'.arg.initial],
                                  db'.purchases[last'.arg.initial])
      ]_vars

\* every item of the old version is on a line of the new version
KeepsItems(old, new) ==
    \A j \in 1..Len(old.lines) :
       \E k \in 1..Len(new.lines) : new.lines[k].itemId = old.lines[j].itemId

\* the same, for the edits where neither version names an item on two lines and the
\* new version keeps every item of the old one
C11_EditKeepingItems ==
    [][ (/\ last'.op = "PurchaseForm.save"
         /\ last'.arg.initial # 0
         /\ last'.error = ""
         /\ NoItemTwice(db.purchases[last'.arg.initial].lines)
         /\ NoItemTwice(db'.purchases[last'.arg.initial].lines)
         /\ KeepsItems(db.purchases[last'.arg.initial], db'.purchases[last'.arg.initial])
         /\ UnitsChanged(db.purchases[last'.arg.initial], db'.purchases[last'.arg.initial]))
        => StockReversedThenAdded(db.purchases[last'.arg.initial],
                                  db'.purchases[last'.arg.initial])
      ]_vars

\* C12: saving a new purchase raises the stock of each item by the sum, over the lines
\* that name it, of quantity + (hasSubItems ? subItemsQty : 0), leaves the stock of the
\* items on no line as it was, and stores totalUnits as the sum of these units over
\* all the lines.
C12_NewPurchaseAddsUnits ==
    [][ (/\ last'.op = "PurchaseForm.save"
         /\ last'.arg.initial = 0
         /\ last'.error = "")
        => LET p == StoredPurchase(db', last'.arg.id)
           IN /\ \A i \in 1..Len(db.items) :
                    db'.items[i].stock
                      = db.items[i].stock + BillableUnits(p.lines, db.items[i].id)
              /\ p.totalUnits =
                    SumSeq([k \in 1..Len(p.lines) |->
                              p.lines[k].quantity
                              + (IF p.lines[k].hasSubItems THEN p.lines[k].subItemsQty ELSE 0)])
      ]_vars

\* a new purchase was saved with two lines, one of them with sub-items: the item of the
\* other line got that line's units, the item with sub-items got 1 + 1 units
C12_Witness ==
    /\ last.op = "PurchaseForm.save"
    /\ last.arg.initial = 0
    /\ last.error = ""
    /\ FindIdx(db.purchases, last.arg.id) # 0
    /\ LET p == StoredPurchase(db, last.arg.id)
       IN /\ Len(p.lines) = 2
          /\ p.lines[1].itemId = "i1" /\ p.lines[1].quantity = 2
          /\ p.lines[2].itemId = "i2" /\ p.lines[2].hasSubItems /\ p.lines[2].subItemsQty = 1
          /\ p.totalUnits = 4
          /\ db.items[1].stock = 2
          /\ db.items[2].stock = 2

\* C13: deleting a purchase removes it from the list of purchases and lowers the stock
\* of each item by the units the purchase held of it, not below 0; deleting a new
\* purchase right after its save gives every item the stock it had before the save.
C13_DeleteReversesStock ==
    [][ /\ (last'.op = "PurchasesPage.onDelete" /\ FindIdx(db.purchases, last'.arg) # 0)
           => LET p == StoredPurchase(db, last'.arg)
              IN /\ FindIdx(db'.purchases, last'.arg) = 0
                 /\ Len(db'.purchases) = Len(db.purchases) - 1
                 /\ \A i \in 1..Len(db.items) :
                       db'.items[i].stock
                         = Max(0, db.items[i].stock - BillableUnits(p.lines, db.items[i].id))
        /\ (last'.op = "PurchaseForm.save" /\ last'.arg.initial = 0 /\ last'.error = "")
           => LET after == PurchasesPage_onDelete_result(db', last'.arg.id)
              IN /\ FindIdx(after.purchases, last'.arg.id) = 0
                 /\ \A i \in 1..Len(db.items) : after.items[i].stock = db.items[i].stock
      ]_vars

\* a purchase of two lines was deleted and an item it held units of is back at stock 0
C13_Witness ==
    /\ last.op = "PurchasesPage.onDelete"
    /\ db.purchases = <<>>
    /\ \A i \in 1..Len(db.items) : db.items[i].stock = 0
    /\ \E i \in 1..Len(db.items) : db.items[i].costPreShipping = 1000

-----------------------------------------------------------------------------
(* Properties of the allocation and of the recalculation sweep *)

Recalculated == "InventoryPage.handleRecalculatePrices"

\* line j of the stored purchase p as the allocation of the purchase form computes it
\* from the lines and the footer of p, the item weights of d and the tax rate of d
SaveAllocation(d, p, j) ==
    enrichLine(d.items, p.lines[j], totalUnits(p.lines), totalWeightOf(d.items, p.lines),
               d.settings.taxRatePercent, p.shippingUS, p.shippingIntl)

\* C14: the recalculation sweep computes perUnitTax, perUnitShippingUS,
\* perUnitShippingIntl and unitCostPostShipping of every line by the rules of the
\* allocation run at purchase save (perUnitTax = unitCost * taxRatePercent / 100), so
\* recalculate-all right after the save of a purchase leaves every line of that
\* purchase as the save stored it.
C14_RecalculateAsSave ==
    [][ last'.op = Recalculated
        => /\ \A k \in 1..Len(db.purchases) :
                 \A j \in 1..Len(db.purchases[k].lines) :
                    db'.purchases[k].lines[j] = SaveAllocation(db, db.purchases[k], j)
           /\ (/\ last.op = "PurchaseForm.save"
               /\ last.error = ""
               /\ FindIdx(db.purchases, last.arg.id) # 0)
              => StoredPurchase(db', last.arg.id).lines = StoredPurchase(db, last.arg.id).lines
      ]_vars

\* the same for the two shipping allocations alone
C14_RecalculateShippingAsSave ==
    [][ last'.op = Recalculated
        => \A k \in 1..Len(db.purchases) :
              \A j \in 1..Len(db.purchases[k].lines) :
                 /\ db'.purchases[k].lines[j].perUnitShippingUS
                      = SaveAllocation(db, db.purchases[k], j).perUnitShippingUS
                 /\ db'.purchases[k].lines[j].perUnitShippingIntl
                      = SaveAllocation(db, db.purchases[k], j).perUnitShippingIntl
      ]_vars

\* the lines of the purchases of d that name the item, as <<purchase index, line index>>
LineRefs(d, itemId) ==
    UNION {{<<k, j>> : j \in {j \in 1..Len(d.purchases[k].lines) :
                                d.purchases[k].lines[j].itemId = itemId}}
           : k \in 1..Len(d.purchases)}

\* the last of them, purchases in stored order and lines in their order in the purchase
LastRef(refs) ==
    CHOOSE r \in refs :
       \A q \in refs : q[1] < r[1] \/ (q[1] = r[1] /\ q[2] <= r[2])

CostFields(it) == <<it.costPreShipping, it.costPostShipping, it.minPrice, it.maxPrice>>

\* C15: after recalculate-all, costPreShipping, costPostShipping and the price band of
\* each item are those derived from the last purchase line that names the item,
\* purchases taken in stored order and lines in their order within the purchase; an
\* item named by no purchase line keeps its cost and price fields.
C15_LastLineWins ==
    [][ last'.op = Recalculated
        => \A i \in 1..Len(db.items) :
              LET refs == LineRefs(db', db.items[i].id)
              IN IF refs = {}
                 THEN CostFields(db'.items[i]) = CostFields(db.items[i])
                 ELSE LET r == LastRef(refs)
                          l == db'.purchases[r[1]].lines[r[2]]
                          costPost == l.unitCostPostShipping
                      IN CostFields(db'.items[i])
                           = <<l.unitCost, costPost,
                               MathCeil(RMul(costPost, <<5, 4>>)),
                               MathCeil(RMul(costPost, <<7, 5>>))>>
      ]_vars

\* the sweep ran over two purchases that both name item i1, the second with two lines
\* of i1 at different unit costs: i1 has the unit cost of the last of them, and item
\* i3, on no line, the price band it was created with
C15_Witness ==
    /\ last.op = Recalculated
    /\ Len(db.purchases) = 2
    /\ db.purchases[1].lines[1].itemId = "i1"
    /\ db.purchases[1].lines[1].unitCost = 4000
    /\ Len(db.purchases[2].lines) = 2
    /\ db.purchases[2].lines[1].itemId = "i1" /\ db.purchases[2].lines[1].unitCost = 1000
    /\ db.purchases[2].lines[2].itemId = "i1" /\ db.purchases[2].lines[2].unitCost = 2000
    /\ db.items[1].costPreShipping = 2000
    /\ db.items[1].costPostShipping = db.purchases[2].lines[2].unitCostPostShipping
    /\ LineRefs(db, "i3") = {}
    /\ db.items[3].minPrice = FromInt(500)

\* the fields of a purchase and of its lines that the sweep does not derive
PurchaseInputs(p) ==
    <<p.id, p.subtotal, p.tax, p.shippingUS, p.shippingIntl, p.weightLbs, p.totalUnits,
      p.totalCost, p.cashUsed, p.paymentSource,
      [j \in 1..Len(p.lines) |->
         <<p.lines[j].itemId, p.lines[j].quantity, p.lines[j].unitCost,
           p.lines[j].hasSubItems, p.lines[j].subItemsQty>>]>>

\* C16: recalculate-all changes only the derived allocation fields of the purchase
\* lines and the cost and price fields of the items: the stock and the weight of every
\* item, the quantities and unit costs of every line, the footer totals, totalUnits,
\* totalCost, cashUsed and paymentSource of every purchase, the sales, the transactions
\* and the cash withdrawals are unchanged, and so is the available cash.
C16_RecalculateFrame ==
    [][ last'.op = Recalculated
        => /\ Len(db'.items) = Len(db.items)
           /\ \A i \in 1..Len(db.items) :
                 /\ db'.items[i].id = db.items[i].id
                 /\ db'.items[i].stock = db.items[i].stock
                 /\ db'.items[i].weightLbs = db.items[i].weightLbs
           /\ Len(db'.purchases) = Len(db.purchases)
           /\ \A k \in 1..Len(db.purchases) :
                 PurchaseInputs(db'.purchases[k]) = PurchaseInputs(db.purchases[k])
           /\ db'.sales = db.sales
           /\ db'.transactions = db.transactions
           /\ db'.cashWithdrawals = db.cashWithdrawals
           /\ db'.settings = db.settings
           /\ calculateAvailableCash(db') = calculateAvailableCash(db)
      ]_vars

\* the sweep ran on a document with a sale, a purchase paid with cash and its
\* withdrawal, and rewrote the tax allocation of the purchase's line
C16_Witness ==
    /\ last.op = Recalculated
    /\ Len(db.sales) = 1
    /\ Len(db.purchases) = 1
    /\ db.purchases[1].cashUsed > 0
    /\ db.purchases[1].paymentSource = "mixed"
    /\ \E w \in 1..Len(db.cashWithdrawals) :
          db.cashWithdrawals[w].linkedPurchaseId = db.purchases[1].id
    /\ db.purchases[1].lines[1].unitCost = 1000
    /\ db.purchases[1].lines[1].perUnitTax = FromInt(88)
    /\ db.items[1].stock > 0

\* the per-unit fields of the lines of p are finite numbers, the US shipping per unit
\* is 0 when p has no units and the international one is 0 when its lines weigh nothing
FiniteAllocations(d, p) ==
    \A j \in 1..Len(p.lines) :
       /\ IsFinite(p.lines[j].perUnitTax)
       /\ IsFinite(p.lines[j].perUnitShippingUS)
       /\ IsFinite(p.lines[j].perUnitShippingIntl)
       /\ IsFinite(p.lines[j].unitCostPostShipping)
       /\ totalUnits(p.lines) = 0 => p.lines[j].perUnitShippingUS = FromInt(0)
       /\ totalWeightOf(d.items, p.lines) = 0 => p.lines[j].perUnitShippingIntl = FromInt(0)

\* C17: for every purchase, one with totalUnits 0, one with a line of quantity 0, one
\* whose items have no weight and one with subtotal 0 included, the allocation at save
\* and the recalculation sweep divide by non-zero denominators only: every per-unit
\* field they write is a finite number, perUnitShippingUS is 0 when totalUnits is 0 and
\* perUnitShippingIntl is 0 when the total weight is 0.
C17_AllocationsFinite ==
    \A k \in 1..Len(db.purchases) : FiniteAllocations(db, db.purchases[k])

\* the same for the allocation at save alone
C17_SaveAllocationsFinite ==
    [][ (last'.op = "PurchaseForm.save" /\ last'.error = "")
        => FiniteAllocations(db', StoredPurchase(db', last'.arg.id))
      ]_vars

-----------------------------------------------------------------------------
(* Reconciliation of the allocations with the footer of the purchase *)

RECURSIVE RSum(_)
RSum(s) == IF s = <<>> THEN FromInt(0) ELSE RAdd(Head(s), RSum(Tail(s)))

\* a and b are at most tol cents apart
Within(a, b, tol) == RLe(RSub(a, b), FromInt(tol)) /\ RLe(RSub(b, a), FromInt(tol))

UnitsOfLine(l) == l.quantity + (IF l.hasSubItems THEN l.subItemsQty ELSE 0)

AllocatedTax(p) ==
    RSum([j \in 1..Len(p.lines) |-> RMul(p.lines[j].perUnitTax, FromInt(UnitsOfLine(p.lines[j])))])

AllocatedShippingUS(p) ==
    RSum([j \in 1..Len(p.lines) |->
            RMul(p.lines[j].perUnitShippingUS, FromInt(UnitsOfLine(p.lines[j])))])

AllocatedShippingIntl(p) ==
    RSum([j \in 1..Len(p.lines) |->
            RMul(p.lines[j].perUnitShippingIntl, FromInt(UnitsOfLine(p.lines[j])))])

SavedPurchase == StoredPurchase(db', last'.arg.id)

SavedOk == last'.op = "PurchaseForm.save" /\ last'.error = ""

\* the tax footer is subtotal * taxRatePercent / 100
TaxIsRateOfSubtotal(d, p) ==
    FromInt(p.tax) = RMul(FromInt(p.subtotal), RDiv(d.settings.taxRatePercent, FromInt(100)))

NoSubItems(p) ==
    \A j \in 1..Len(p.lines) : ~p.lines[j].hasSubItems \/ p.lines[j].subItemsQty = 0

IntlIsDerived(d, p) == p.shippingIntl = p.weightLbs * d.settings.weightCostPerLb

\* C19 as stated: for any saved purchase whose shippingIntl was derived as
\* weightLbs * weightCostPerLb, the sum over its lines of perUnitShippingIntl *
\* billable units equals shippingIntl within 0.01.
C19_AsStated ==
    [][ (SavedOk /\ IntlIsDerived(db', SavedPurchase))
        => Within(AllocatedShippingIntl(SavedPurchase), FromInt(SavedPurchase.shippingIntl), 1)
      ]_vars

\* C19: for any saved purchase whose shippingIntl was derived as
\* weightLbs * weightCostPerLb and whose lines have a total weight above 0, the sum over
\* its lines of perUnitShippingIntl * billable units equals shippingIntl within 0.01;
\* when the total weight is 0, every perUnitShippingIntl is 0 and the sum is 0.
C19_IntlReconciles ==
    [][ (SavedOk /\ IntlIsDerived(db', SavedPurchase))
        => IF totalWeightOf(db'.items, SavedPurchase.lines) > 0
           THEN Within(AllocatedShippingIntl(SavedPurchase),
                       FromInt(SavedPurchase.shippingIntl), 1)
           ELSE /\ \A j \in 1..Len(SavedPurchase.lines) :
                      SavedPurchase.lines[j].perUnitShippingIntl = FromInt(0)
                /\ AllocatedShippingIntl(SavedPurchase) = FromInt(0)
      ]_vars

\* a purchase of 3 units of the 1 lb item and 7 units of the 3 lb item was saved with
\* the derived weight 24 and shipping 168.00: the lines carry 7.00 and 21.00 per unit
C19_Witness ==
    /\ last.op = "PurchaseForm.save"
    /\ last.error = ""
    /\ FindIdx(db.purchases, last.arg.id) # 0
    /\ LET p == StoredPurchase(db, last.arg.id)
       IN /\ p.weightLbs = 24
          /\ p.shippingIntl = 16800
          /\ Len(p.lines) = 2
          /\ p.lines[1].quantity = 3 /\ p.lines[1].perUnitShippingIntl = FromInt(700)
          /\ p.lines[2].quantity = 7 /\ p.lines[2].perUnitShippingIntl = FromInt(2100)

\* C20: on save every line of a purchase gets the same perUnitShippingUS,
\* shippingUS / totalUnits when shippingUS > 0 and totalUnits > 0 and 0 otherwise,
\* whatever the unit costs and the item weights of the lines, so the sum over the lines
\* of perUnitShippingUS * billable units is shippingUS whenever totalUnits > 0.
C20_EqualSplit ==
    [][ SavedOk
        => LET p == SavedPurchase
               units == SumSeq([j \in 1..Len(p.lines) |-> UnitsOfLine(p.lines[j])])
               share == IF p.shippingUS > 0 /\ units > 0
                        THEN RDiv(FromInt(p.shippingUS), FromInt(units))
                        ELSE FromInt(0)
           IN /\ \A j \in 1..Len(p.lines) : p.lines[j].perUnitShippingUS = share
              /\ units > 0 => AllocatedShippingUS(p) = FromInt(p.shippingUS)
      ]_vars

\* a purchase of 3 units at 10.00 of the 1 lb item and 7 units at 20.00 of the 3 lb item
\* was saved with shippingUS 50.00: both lines carry 5.00 per unit
C20_Witness ==
    /\ last.op = "PurchaseForm.save"
    /\ last.error = ""
    /\ FindIdx(db.purchases, last.arg.id) # 0
    /\ LET p == StoredPurchase(db, last.arg.id)
       IN /\ p.shippingUS = 5000
          /\ p.totalUnits = 10
          /\ Len(p.lines) = 2
          /\ p.lines[1].quantity = 3 /\ p.lines[1].unitCost = 1000
          /\ p.lines[2].quantity = 7 /\ p.lines[2].unitCost = 2000
          /\ p.lines[1].perUnitShippingUS = FromInt(500)
          /\ p.lines[2].perUnitShippingUS = FromInt(500)

-----------------------------------------------------------------------------
(* The split of the international shipping by weight *)

\* C21: on save, when the total weight of the purchase is above 0, for each line
\* perUnitShippingIntl * billable units = shippingIntl * (item weight * billable units)
\* / total weight (items of 1 lb and 3 lb, quantities 2 and 2 and shippingIntl 40.00
\* give 5.00 and 15.00 per unit); a line whose item is unknown or has no weight gets 0.
C21_IntlByWeight ==
    [][ SavedOk
        => LET p == SavedPurchase
               tw == totalWeightOf(db.items, p.lines)
           IN \A j \in 1..Len(p.lines) :
                 LET l == p.lines[j]
                     w == itemWeightOf(db.items, l.itemId)
                 IN /\ tw > 0 =>
                         RMul(l.perUnitShippingIntl, FromInt(UnitsOfLine(l)))
                           = RDiv(FromInt(p.shippingIntl * (w * UnitsOfLine(l))), FromInt(tw))
                    /\ w = 0 => l.perUnitShippingIntl = FromInt(0)
      ]_vars

\* 2 units of the 1 lb item and 2 of the 3 lb item were saved with shippingIntl 40.00:
\* the lines carry 5.00 and 15.00 per unit
C21_Witness ==
    /\ last.op = "PurchaseForm.save"
    /\ last.error = ""
    /\ FindIdx(db.purchases, last.arg.id) # 0
    /\ LET p == StoredPurchase(db, last.arg.id)
       IN /\ p.shippingIntl = 4000
          /\ Len(p.lines) = 2
          /\ p.lines[1].itemId = "i1" /\ p.lines[1].quantity = 2
          /\ p.lines[2].itemId = "i2" /\ p.lines[2].quantity = 2
          /\ p.lines[1].perUnitShippingIntl = FromInt(500)
          /\ p.lines[2].perUnitShippingIntl = FromInt(1500)

-----------------------------------------------------------------------------
(* The frame of processPurchaseWithCash *)

ProcessedPurchase == last'.op = "RevenueService.processPurchaseWithCash" /\ last'.error = ""

\* C22: processPurchaseWithCash does not mutate its input and returns a new state in
\* which only the target purchase's cashUsed and paymentSource and the withdrawal list
\* differ from the input state: items, sales, transactions, settings, branches and
\* every other purchase are identical.
C22_ProcessPurchaseFrame ==
    [][ ProcessedPurchase
        => LET u == last'.result.updatedDb
           IN /\ db' = db
              /\ u.items = db.items
              /\ u.sales = db.sales
              /\ u.transactions = db.transactions
              /\ u.settings = db.settings
              /\ u.branches = db.branches
              /\ DOMAIN u = DOMAIN db
              /\ Len(u.purchases) = Len(db.purchases)
              /\ \A k \in 1..Len(db.purchases) :
                    IF db.purchases[k].id # last'.arg.id
                    THEN u.purchases[k] = db.purchases[k]
                    ELSE [u.purchases[k] EXCEPT
                             !.cashUsed = db.purchases[k].cashUsed,
                             !.paymentSource = db.purchases[k].paymentSource]
                           = db.purchases[k]
      ]_vars

\* the function was called with cash on the second of two stored purchases, the first
\* one paid otherwise, beside a sale, an expense and earlier withdrawals: the result
\* holds one more withdrawal and the second purchase with new payment fields
C22_Witness ==
    /\ last.op = "RevenueService.processPurchaseWithCash"
    /\ last.error = ""
    /\ Len(db.purchases) = 2
    /\ last.arg.id = db.purchases[2].id
    /\ db.purchases[1].paymentSource # db.purchases[2].paymentSource
    /\ db.sales # <<>>
    /\ db.transactions # <<>>
    /\ db.cashWithdrawals # <<>>
    /\ Len(last.result.updatedDb.cashWithdrawals) = Len(db.cashWithdrawals) + 1
    /\ last.result.updatedDb.purchases[2].paymentSource # db.purchases[2].paymentSource
    /\ last.result.updatedDb.purchases[1] = db.purchases[1]

-----------------------------------------------------------------------------
(* The price band of the items a purchase writes *)

\* the price band of item it is the one derived from its landed cost
PriceBand(it) ==
    /\ it.minPrice = MathCeil(RMul(it.costPostShipping, <<5, 4>>))
    /\ it.maxPrice = MathCeil(RMul(it.costPostShipping, <<7, 5>>))
    /\ it.minProfit = RSub(it.minPrice, it.costPostShipping)
    /\ it.maxProfit = RSub(it.maxPrice, it.costPostShipping)
    /\ (IsFinite(it.costPostShipping) /\ RLe(FromInt(0), it.costPostShipping))
       => /\ RLe(it.minPrice, it.maxPrice)
          /\ RLe(FromInt(0), it.minProfit)
          /\ RLe(it.minProfit, it.maxProfit)

\* every item named on a line of the purchases ps has the landed cost of one of those
\* lines and the price band derived from it
WrittenItemsPriced(d, ps) ==
    \A i \in 1..Len(d.items) :
       LET refs == LineRefs([purchases |-> ps], d.items[i].id)
       IN refs # {}
          => /\ \E r \in refs :
                   d.items[i].costPostShipping = ps[r[1]].lines[r[2]].unitCostPostShipping
             /\ PriceBand(d.items[i])

\* C23: after a purchase save or a recalculate-all, every item written has
\* minPrice = ceil(costPostShipping * 1.25), maxPrice = ceil(costPostShipping * 1.4),
\* minProfit = minPrice - costPostShipping and maxProfit = maxPrice - costPostShipping,
\* costPostShipping being the unitCostPostShipping of a line; hence minPrice <= maxPrice
\* and 0 <= minProfit <= maxProfit for every landed cost that is not negative.
C23_PriceBand ==
    [][ /\ SavedOk => WrittenItemsPriced(db', <<SavedPurchase>>)
        /\ last'.op = Recalculated => WrittenItemsPriced(db', db'.purchases)
      ]_vars

\* 3 units at 10.00 of the 1 lb item were saved beside 7 of the 3 lb item with
\* shippingUS 50.00: the item's landed cost is 22.8775, its prices 29.00 and 33.00 and
\* its profits 6.1225 and 10.1225
C23_Witness ==
    /\ last.op = "PurchaseForm.save"
    /\ last.error = ""
    /\ db.items[1].costPostShipping = <<9151, 4>>
    /\ db.items[1].minPrice = FromInt(2900)
    /\ db.items[1].maxPrice = FromInt(3300)
    /\ db.items[1].minProfit = <<2449, 4>>
    /\ db.items[1].maxProfit = <<4049, 4>>

-----------------------------------------------------------------------------
(* The checks of the purchase form *)

\* the line list is empty or one of its lines has no item
InvalidDraft(lines) == lines = <<>> \/ \E i \in 1..Len(lines) : lines[i].itemId = ""

\* C24: saving a draft whose line list is empty, or one of whose lines has an empty
\* itemId, is rejected before any allocation: no line receives allocation fields and
\* the stored items, purchases and withdrawals are unchanged.
C24_InvalidDraftRejected ==
    [][ /\ (last'.op = "PurchaseForm.save" /\ last'.error = "validation")
           => /\ db'.items = db.items
              /\ db'.purchases = db.purchases
              /\ db'.cashWithdrawals = db.cashWithdrawals
              /\ db' = db
        /\ \A k \in 1..Len(db'.purchases) : ~InvalidDraft(db'.purchases[k].lines)
      ]_vars

\* a draft was rejected while a purchase paid with cash was stored: the document still
\* holds that purchase, its withdrawal and the stock it brought
C24_Witness ==
    /\ last.op = "PurchaseForm.save"
    /\ last.error = "validation"
    /\ Len(db.purchases) = 1
    /\ db.cashWithdrawals # <<>>
    /\ db.items[1].stock > 0

-----------------------------------------------------------------------------
(* The withdrawals and what they were made for *)

\* the sum of the withdrawals of d linked to the purchase id
LinkedWithdrawn(d, id) ==
    SumSeq([i \in 1..Len(d.cashWithdrawals) |->
              IF d.cashWithdrawals[i].linkedPurchaseId = id THEN d.cashWithdrawals[i].amount
              ELSE 0])

\* C25: after any sequence of purchase saves and edits, for every stored purchase the
\* sum of the withdrawals linked to it equals its cashUsed: re-saving an edited purchase
\* that already used cash does not withdraw a second time.
C25_LinkedWithdrawalsAreCashUsed ==
    \A k \in 1..Len(db.purchases) :
       LinkedWithdrawn(db, db.purchases[k].id) = db.purchases[k].cashUsed

\* C26: after any sequence of operations, deleting sales, editing sales and deleting
\* income transactions included, the total of the withdrawals never exceeds sales
\* revenue plus income, so the clamp of the available cash never hides a negative
\* balance.
C26_WithdrawalsNeverExceedInflows ==
    (calculateTotalRevenue(db) + calculateTotalIncome(db)) - calculateTotalWithdrawn(db) >= 0

\* C27: every withdrawal that carries a linkedPurchaseId refers to a stored purchase;
\* after a purchase is deleted no withdrawal remains linked to it.
C27_LinkedPurchaseStored ==
    \A i \in 1..Len(db.cashWithdrawals) :
       db.cashWithdrawals[i].linkedPurchaseId # 0
       => db.cashWithdrawals[i].linkedPurchaseId \in PurchaseIds(db)

\* the cash the stored expenses and fees took from the business cash
CashPartOfTransactions(d) ==
    SumSeq([i \in 1..Len(d.transactions) |->
              IF d.transactions[i].type \in {"expense", "fee"}
              THEN cashToWithdrawOf(d.transactions[i]) ELSE 0])

\* C28: after any sequence of adding, editing and deleting transactions, the total of
\* the transaction-originated withdrawals (reason prefixed 'Transaction:') equals the
\* sum over the stored expense and fee transactions of their cash part: editing or
\* deleting a transaction leaves no extra withdrawal behind.
C28_TransactionWithdrawalsMatch ==
    calculateTotalTransactionWithdrawals(db) = CashPartOfTransactions(db)

-----------------------------------------------------------------------------
(* The stock under purchases and sales *)

SoldOf(lines, itemId) ==
    SumSeq([j \in 1..Len(lines) |-> IF lines[j].itemId = itemId THEN lines[j].quantity ELSE 0])

\* C30: editing a stored sale gives the old quantities back to the stock before it
\* takes the new ones, so for every item stock after = stock before + old quantity -
\* new quantity whenever the stock suffices; re-saving a sale with unchanged lines
\* leaves the stock unchanged.
C30_SaleEditMovesDifference ==
    [][ (last'.op = "SaleForm.save" /\ last'.error = "" /\ last'.arg # 0)
        => \A i \in 1..Len(db.items) :
              LET old == SoldOf(db.sales[last'.arg].lines, db.items[i].id)
                  new == SoldOf(db'.sales[last'.arg].lines, db.items[i].id)
              IN db.items[i].stock + old >= new
                 => db'.items[i].stock = db.items[i].stock + old - new
      ]_vars

=============
